---- MODULE Spec2Model ----
(***************************************************************************)
(* Model of the scouting-flyers backend: project access control            *)
(* (routers/projects.py), zone assignments and their lifecycle             *)
(* (routers/assignments.py, schemas/assignment.py, models/zone.py).        *)
(*                                                                         *)
(* The database is the state: one variable per table, each a function from *)
(* the primary keys of the rows that exist to the row.  A request handler  *)
(* is one action; every request, accepted or rejected, is recorded in      *)
(* `last` together with the time of the request and the tables as they     *)
(* were before it, so that the handler's result can be compared with what  *)
(* it did.  `pending` holds the create_assignment requests that a server   *)
(* process has checked and not yet inserted.                               *)
(*                                                                         *)
(* The Boundary Importer (utils/kml_parser.py, routers/zones.py) works on  *)
(* KML documents.  A document is modelled by what the parser reads of it:  *)
(* whether it is well-formed XML, and the sequence of its Placemark        *)
(* elements, each with its name element, whether it holds a Polygon, and   *)
(* the tokens of the outer ring's coordinates text.  Texts are sequences   *)
(* of characters.                                                          *)
(***************************************************************************)
EXTENDS Integers, FiniteSets, Sequences, TLC

VARIABLES projects, collaborators, zones, assignments, pending,
          completion_areas, oauth_states, users, oauth_history, now, last

vars == <<projects, collaborators, zones, assignments, pending,
          completion_areas, oauth_states, users, oauth_history, now, last>>

(***************************************************************************)
(* Bounds and input sets                                                   *)
(***************************************************************************)
\* datetime.utcnow() takes the values 1..MaxClock
MaxClock == 2

Users == {"u1", "u2", "u3"}
ProjectIds == {"p1", "p2"}
ZoneIds == {"z1", "z2"}
AssignmentIds == {"a1", "a2"}
\* the uuid4 keys that imported zones receive, in the order they are drawn
ZoneIdOrder == <<"z3", "z4">>
ImportedZoneIds == {ZoneIdOrder[i] : i \in DOMAIN ZoneIdOrder}
\* a KML document of the model has at most MaxPlacemarks placemarks
MaxPlacemarks == 3
\* the longest outer ring of a request, in coordinate tokens
MaxRingTokens == 4
\* the state values that secrets.token_urlsafe draws, the Google accounts,
\* the names Google reports for them, and the longest sequence of login
\* requests
OAuthStates == {"s1", "s2", "s3"}
GoogleIds == {"g1", "g2"}
GoogleNames == {"n1", "n2"}
MaxAuthRequests == 4
\* the texts of the notes of a volunteer
NoteTexts == {"gate locked"}
\* the primary keys of completion_areas
AreaIds == {"m1", "m2"}
\* geometries lie on a strip of GridWidth unit cells; the cell <<x, y>> is
\* the square from (x, y) to (x + 1, y + 1)
GridWidth == 12
Cells == (0..(GridWidth - 1)) \X {0}
\* the server processes that handle requests against the one database
Workers == {"w1", "w2"}

\* Python's None for an optional string-valued field or argument
None == "None"
\* a NULL DateTime column / an Optional[datetime] that was not supplied
NoTime == 0
\* a null manual_completion_percentage
NoPercentage == -1
\* the datetimes an organizer may supply in an AssignmentUpdate
AdminTimes == 1..MaxClock

(***************************************************************************)
(* Enumerations                                                            *)
(***************************************************************************)
OWNER == "owner"
ORGANIZER == "organizer"
PROJECT_VIEWER == "project_viewer"
CollaboratorRole == {OWNER, ORGANIZER, PROJECT_VIEWER}

Statuses == {"assigned", "in_progress", "completed"}

\* A request ends in one outcome: "OK" (2xx), "NotFound" (404), "Forbidden"
\* (403), "ValidationError" (422, the body does not match its schema), or one
\* of the 400 responses, named after their detail: "InvalidTransition",
\* "DuplicateAssignment", "ZoneNotInProject", "AlreadyCollaborator",
\* "OwnerAsCollaborator".

(***************************************************************************)
(* Rows of the tables                                                      *)
(***************************************************************************)
\* projects: the owner is a column of the project
Project == [owner_id : Users]

\* project_collaborators
ProjectCollaborator ==
    [project_id : ProjectIds, user_id : Users, role : CollaboratorRole]

\* the characters of the texts
Chars == {" ", "A", "a", "B", "b"}

\* zones; the primary keys of imported zones come from ImportedZoneIds
\* geometry: the polygon, as the set of cells it covers
Zone == [project_id : ProjectIds, name : Seq(Chars), geometry : SUBSET Cells]

\* zone_assignments
ZoneAssignment ==
    [zone_id : ZoneIds, volunteer_id : Users, assigned_by : Users,
     status : Statuses, started_at : 0..MaxClock, completed_at : 0..MaxClock,
     manual_completion_percentage : {NoPercentage} \cup 0..100,
     notes : {None} \cup NoteTexts]

\* users, the rows with a google_id, under their google_id
User == [name : GoogleNames, last_login : 1..MaxClock]

\* completion_areas
CompletionArea == [assignment_id : AssignmentIds, geometry : SUBSET Cells]

\* an AssignmentCreate request with its caller and the project of its URL
AssignmentCreate ==
    [user : Users, project_id : ProjectIds, zone_id : ZoneIds,
     volunteer_id : Users]

TypeOK ==
    /\ DOMAIN projects \subseteq ProjectIds
    /\ \A p \in DOMAIN projects : projects[p] \in Project
    /\ collaborators \subseteq ProjectCollaborator
    /\ DOMAIN zones \subseteq ZoneIds \cup ImportedZoneIds
    /\ \A z \in DOMAIN zones : zones[z] \in Zone
    /\ DOMAIN assignments \subseteq AssignmentIds
    /\ \A a \in DOMAIN assignments : assignments[a] \in ZoneAssignment
    /\ DOMAIN completion_areas \subseteq AreaIds
    /\ \A m \in DOMAIN completion_areas :
          completion_areas[m] \in CompletionArea
    /\ oauth_states \subseteq OAuthStates
    /\ DOMAIN users \subseteq GoogleIds
    /\ \A g \in DOMAIN users : users[g] \in User
    /\ DOMAIN pending \subseteq Workers
    /\ \A w \in DOMAIN pending : pending[w] \in AssignmentCreate
    /\ now \in 1..MaxClock

(***************************************************************************)
(* Table helpers                                                           *)
(***************************************************************************)
Insert(table, key, row) ==
    [k \in DOMAIN table \cup {key} |-> IF k = key THEN row ELSE table[k]]

Delete(table, keys) == [k \in DOMAIN table \ keys |-> table[k]]

EmptyTable == [k \in {} |-> None]

(***************************************************************************)
(* Access Control Resolver: routers/projects.py check_project_access      *)
(***************************************************************************)
\* the rows of project_collaborators for (project_id, user)
CollaboratorRows(project_id, user) ==
    {c \in collaborators : c.project_id = project_id /\ c.user_id = user}

\* .first() of that query: some row when there is one
FirstCollaborator(project_id, user) ==
    CHOOSE c \in CollaboratorRows(project_id, user) : TRUE

\* faulty variant: every collaborator row passes the organizer check
organizer_check_any_row(is_owner, project_id, user) ==
    \/ is_owner
    \/ CollaboratorRows(project_id, user) # {}

\* required_role == ORGANIZER: the owner, or a collaborator row whose role is
\* OWNER or ORGANIZER
organizer_check(is_owner, project_id, user) ==
    \/ is_owner
    \/ /\ CollaboratorRows(project_id, user) # {}
       /\ FirstCollaborator(project_id, user).role \in {OWNER, ORGANIZER}

\* faulty variant: the owner check also accepts a collaborator row with role owner
check_project_access_by_role(project_id, user, required_role) ==
    IF project_id \notin DOMAIN projects THEN "NotFound"
    ELSE LET is_owner == projects[project_id].owner_id = user
             rows == CollaboratorRows(project_id, user)
             has_access == is_owner \/ rows # {}
         IN  IF ~has_access THEN "Forbidden"
             ELSE IF required_role = OWNER
                     /\ ~(is_owner \/ \E c \in rows : c.role = OWNER)
                  THEN "Forbidden"
             ELSE IF required_role = ORGANIZER
                     /\ ~organizer_check(is_owner, project_id, user)
                  THEN "Forbidden"
             ELSE "OK"

\* faulty variant: the can-view check (no required role) is open to everyone
check_project_access_open_view(project_id, user, required_role) ==
    IF project_id \notin DOMAIN projects THEN "NotFound"
    ELSE LET is_owner == projects[project_id].owner_id = user
             has_access == is_owner \/ CollaboratorRows(project_id, user) # {}
         IN  IF required_role = None THEN "OK"
             ELSE IF ~has_access THEN "Forbidden"
             ELSE IF required_role = OWNER /\ ~is_owner
                  THEN "Forbidden"
             ELSE IF required_role = ORGANIZER
                     /\ ~organizer_check(is_owner, project_id, user)
                  THEN "Forbidden"
             ELSE "OK"

\* the outcome of check_project_access(project_id, user, db, required_role);
\* required_role = None is the default argument
check_project_access(project_id, user, required_role) ==
    IF project_id \notin DOMAIN projects THEN "NotFound"
    ELSE LET is_owner == projects[project_id].owner_id = user
             has_access == is_owner \/ CollaboratorRows(project_id, user) # {}
         IN  IF ~has_access THEN "Forbidden"
             ELSE IF required_role = OWNER /\ ~is_owner
                  THEN "Forbidden"
             ELSE IF required_role = ORGANIZER
                     /\ ~organizer_check(is_owner, project_id, user)
                  THEN "Forbidden"
             ELSE "OK"

(***************************************************************************)
(* routers/assignments.py: access helpers                                  *)
(***************************************************************************)
\* faulty variant: require_volunteer is ignored, project members pass
check_assignment_access_any_member(assignment_id, user, require_volunteer) ==
    IF assignment_id \notin DOMAIN assignments THEN "NotFound"
    ELSE LET assignment == assignments[assignment_id]
         IN  IF assignment.zone_id \notin DOMAIN zones THEN "NotFound"
             ELSE IF assignment.volunteer_id = user THEN "OK"
             ELSE check_project_access(zones[assignment.zone_id].project_id,
                                       user, None)

\* faulty variant: the volunteer needs project access like everyone else
check_assignment_access_members_only(assignment_id, user, require_volunteer) ==
    IF assignment_id \notin DOMAIN assignments THEN "NotFound"
    ELSE LET assignment == assignments[assignment_id]
         IN  IF require_volunteer
             THEN IF assignment.volunteer_id # user THEN "Forbidden" ELSE "OK"
             ELSE IF assignment.zone_id \notin DOMAIN zones THEN "NotFound"
             ELSE check_project_access(zones[assignment.zone_id].project_id,
                                       user, None)

check_assignment_access(assignment_id, user, require_volunteer) ==
    IF assignment_id \notin DOMAIN assignments THEN "NotFound"
    ELSE LET assignment == assignments[assignment_id]
         IN  IF require_volunteer
             THEN IF assignment.volunteer_id # user THEN "Forbidden" ELSE "OK"
             ELSE IF assignment.zone_id \notin DOMAIN zones THEN "NotFound"
             ELSE IF assignment.volunteer_id = user THEN "OK"
             ELSE check_project_access(zones[assignment.zone_id].project_id,
                                       user, None)

\* faulty variant: the can-view check in place of the organizer check
check_can_assign_volunteers_any_role(project_id, user) ==
    check_project_access(project_id, user, None)

check_can_assign_volunteers(project_id, user) ==
    check_project_access(project_id, user, ORGANIZER)

(***************************************************************************)
(* schemas/assignment.py: request bodies                                   *)
(***************************************************************************)
\* AssignmentUpdate.status: Optional, pattern ^(assigned|in_progress|completed)$
AssignmentUpdate_valid(status) ==
    status \in {None, "assigned", "in_progress", "completed"}

\* VolunteerStatusUpdate.status: required, pattern ^(in_progress|completed)$
VolunteerStatusUpdate_valid(status) == status \in {"in_progress", "completed"}

(***************************************************************************)
(* routers/assignments.py: create_assignment                               *)
(***************************************************************************)
\* faulty variant: completed assignments count as existing too
existing_any_status(zone_id, volunteer_id) ==
    {a \in DOMAIN assignments :
        /\ assignments[a].zone_id = zone_id
        /\ assignments[a].volunteer_id = volunteer_id}

\* the query of lines 177-183: non-completed assignments of (zone, volunteer)
existing_active(zone_id, volunteer_id) ==
    {a \in DOMAIN assignments :
        /\ assignments[a].zone_id = zone_id
        /\ assignments[a].volunteer_id = volunteer_id
        /\ assignments[a].status # "completed"}

create_assignment_outcome(user, project_id, zone_id, volunteer_id) ==
    IF check_can_assign_volunteers(project_id, user) # "OK"
    THEN check_can_assign_volunteers(project_id, user)
    ELSE IF zone_id \notin DOMAIN zones THEN "NotFound"
    ELSE IF zones[zone_id].project_id # project_id THEN "ZoneNotInProject"
    ELSE IF volunteer_id \notin Users THEN "NotFound"
    ELSE IF existing_active(zone_id, volunteer_id) # {} THEN "DuplicateAssignment"
    ELSE "OK"

\* the row of lines 192-197; started_at and completed_at have no default
new_assignment(user, zone_id, volunteer_id) ==
    [zone_id |-> zone_id, volunteer_id |-> volunteer_id, assigned_by |-> user,
     status |-> "assigned", started_at |-> NoTime, completed_at |-> NoTime,
     manual_completion_percentage |-> NoPercentage, notes |-> None]

\* new_id is the uuid4 primary key drawn for the row
create_assignment(user, project_id, zone_id, volunteer_id, new_id) ==
    LET outcome == create_assignment_outcome(user, project_id, zone_id, volunteer_id)
    IN  /\ outcome = "OK" => new_id \notin DOMAIN assignments
        /\ last' = [op |-> "create_assignment", user |-> user,
                    id |-> IF outcome = "OK" THEN new_id ELSE None,
                    req |-> [project_id |-> project_id, zone_id |-> zone_id,
                             volunteer_id |-> volunteer_id],
                    outcome |-> outcome, at |-> now, old |-> assignments]
        /\ assignments' =
              IF outcome = "OK"
              THEN Insert(assignments, new_id,
                          new_assignment(user, zone_id, volunteer_id))
              ELSE assignments
        /\ UNCHANGED <<projects, collaborators, zones, pending,
                     completion_areas, oauth_states, users, oauth_history, now>>

(***************************************************************************)
(* routers/assignments.py: create_assignment handled by concurrent server  *)
(* processes.  The handler reads (lines 152-189) and then writes (lines    *)
(* 191-200); between the existence query and the commit another process    *)
(* may run.  zone_assignments has no uniqueness constraint on              *)
(* (zone_id, volunteer_id) (models/zone.py 33-54), so the commit of a      *)
(* checked request always succeeds.                                        *)
(***************************************************************************)
\* lines 152-189: the checks; a refused request ends here
create_assignment_check(worker, user, project_id, zone_id, volunteer_id) ==
    LET outcome == create_assignment_outcome(user, project_id, zone_id, volunteer_id)
        request == [user |-> user, project_id |-> project_id,
                    zone_id |-> zone_id, volunteer_id |-> volunteer_id]
    IN  /\ worker \notin DOMAIN pending
        /\ IF outcome = "OK"
           THEN /\ pending' = Insert(pending, worker, request)
                /\ UNCHANGED last
           ELSE /\ last' = [op |-> "create_assignment", user |-> user,
                            id |-> None,
                            req |-> [project_id |-> project_id,
                                     zone_id |-> zone_id,
                                     volunteer_id |-> volunteer_id],
                            outcome |-> outcome, at |-> now, old |-> assignments]
                /\ UNCHANGED pending
        /\ UNCHANGED <<projects, collaborators, zones, assignments,
                     completion_areas, oauth_states, users, oauth_history, now>>

\* lines 191-200: db.add and db.commit of a request that passed the checks
create_assignment_insert(worker, new_id) ==
    /\ worker \in DOMAIN pending
    /\ new_id \notin DOMAIN assignments
    /\ LET request == pending[worker]
       IN  /\ assignments' =
                 Insert(assignments, new_id,
                        new_assignment(request.user, request.zone_id,
                                       request.volunteer_id))
           /\ last' = [op |-> "create_assignment", user |-> request.user,
                       id |-> new_id,
                       req |-> [project_id |-> request.project_id,
                                zone_id |-> request.zone_id,
                                volunteer_id |-> request.volunteer_id],
                       outcome |-> "OK", at |-> now, old |-> assignments]
    /\ pending' = Delete(pending, {worker})
    /\ UNCHANGED <<projects, collaborators, zones, completion_areas, oauth_states, users, oauth_history, now>>

(***************************************************************************)
(* routers/assignments.py: update_assignment (administrative override)     *)
(***************************************************************************)
update_assignment_outcome(user, assignment_id, status) ==
    IF ~AssignmentUpdate_valid(status) THEN "ValidationError"
    ELSE IF check_assignment_access(assignment_id, user, FALSE) # "OK"
    THEN check_assignment_access(assignment_id, user, FALSE)
    ELSE check_can_assign_volunteers(
             zones[assignments[assignment_id].zone_id].project_id, user)

\* faulty variant: a status override applies the lifecycle's completed_at side effects
admin_updated_with_side_effects(assignment, status, started_at, completed_at) ==
    [assignment EXCEPT
        !.status = IF status # None THEN status ELSE @,
        !.started_at = IF started_at # NoTime THEN started_at ELSE @,
        !.completed_at = IF completed_at # NoTime THEN completed_at
                         ELSE IF status = "completed" /\ @ = NoTime THEN now
                         ELSE IF status = "in_progress" THEN NoTime
                         ELSE @]

\* lines 279-284: a field is written only when the request supplies it
admin_updated(assignment, status, started_at, completed_at) ==
    [assignment EXCEPT
        !.status = IF status # None THEN status ELSE @,
        !.started_at = IF started_at # NoTime THEN started_at ELSE @,
        !.completed_at = IF completed_at # NoTime THEN completed_at ELSE @]

update_assignment(user, assignment_id, status, started_at, completed_at) ==
    LET outcome == update_assignment_outcome(user, assignment_id, status)
    IN  /\ last' = [op |-> "update_assignment", user |-> user,
                    id |-> assignment_id,
                    req |-> [status |-> status, started_at |-> started_at,
                             completed_at |-> completed_at],
                    outcome |-> outcome, at |-> now, old |-> assignments]
        /\ assignments' =
              IF outcome = "OK"
              THEN [assignments EXCEPT ![assignment_id] =
                       admin_updated(@, status, started_at, completed_at)]
              ELSE assignments
        /\ UNCHANGED <<projects, collaborators, zones, pending,
                     completion_areas, oauth_states, users, oauth_history, now>>

(***************************************************************************)
(* routers/assignments.py: delete_assignment                               *)
(***************************************************************************)
\* the rows of completion_areas that belong to the assignments
areas_of(assignment_ids) ==
    {m \in DOMAIN completion_areas :
        completion_areas[m].assignment_id \in assignment_ids}

delete_assignment_outcome(user, assignment_id) ==
    IF check_assignment_access(assignment_id, user, FALSE) # "OK"
    THEN check_assignment_access(assignment_id, user, FALSE)
    ELSE check_can_assign_volunteers(
             zones[assignments[assignment_id].zone_id].project_id, user)

\* db.delete(assignment): ZoneAssignment.completion_areas cascades
\* (models/zone.py 53)
delete_assignment(user, assignment_id) ==
    LET outcome == delete_assignment_outcome(user, assignment_id)
    IN  /\ last' = [op |-> "delete_assignment", user |-> user,
                    id |-> assignment_id, req |-> None,
                    outcome |-> outcome, at |-> now, old |-> assignments]
        /\ assignments' =
              IF outcome = "OK" THEN Delete(assignments, {assignment_id})
              ELSE assignments
        /\ completion_areas' =
              IF outcome = "OK"
              THEN Delete(completion_areas, areas_of({assignment_id}))
              ELSE completion_areas
        /\ UNCHANGED <<projects, collaborators, zones, pending, oauth_states, users, oauth_history, now>>

(***************************************************************************)
(* routers/assignments.py: update_my_assignment_status (lifecycle)         *)
(***************************************************************************)
\* the dict of lines 545-549, with .get(old_status, [])
allowed_transitions(old_status) ==
    CASE old_status = "assigned" -> {"in_progress"}
      [] old_status = "in_progress" -> {"assigned", "completed"}
      [] old_status = "completed" -> {"in_progress"}
      [] OTHER -> {}

update_my_assignment_status_outcome(user, assignment_id, status) ==
    IF ~VolunteerStatusUpdate_valid(status) THEN "ValidationError"
    ELSE IF check_assignment_access(assignment_id, user, TRUE) # "OK"
    THEN check_assignment_access(assignment_id, user, TRUE)
    ELSE IF status \notin allowed_transitions(assignments[assignment_id].status)
    THEN "InvalidTransition"
    ELSE "OK"

\* faulty variant: reactivation does not clear completed_at
enter_in_progress_keeps_completed(assignment, old_status) ==
    IF assignment.started_at = NoTime
    THEN [assignment EXCEPT !.started_at = now]
    ELSE assignment

\* faulty variant: every entry into in_progress restarts started_at
enter_in_progress_restarts(assignment, old_status) ==
    LET reactivated == IF old_status = "completed"
                       THEN [assignment EXCEPT !.completed_at = NoTime]
                       ELSE assignment
    IN  [reactivated EXCEPT !.started_at = now]

\* lines 562-568: entering in_progress
enter_in_progress(assignment, old_status) ==
    LET reactivated == IF old_status = "completed"
                       THEN [assignment EXCEPT !.completed_at = NoTime]
                       ELSE assignment
    IN  IF reactivated.started_at = NoTime
        THEN [reactivated EXCEPT !.started_at = now]
        ELSE reactivated

\* faulty variant: completed_at is written on every entry into completed
enter_completed_overwrites(assignment) ==
    [assignment EXCEPT !.completed_at = now]

\* lines 569-570: entering completed
enter_completed(assignment) ==
    IF assignment.completed_at = NoTime
    THEN [assignment EXCEPT !.completed_at = now]
    ELSE assignment

\* lines 571-573: back to assigned
enter_assigned(assignment, old_status) ==
    IF old_status = "in_progress"
    THEN [assignment EXCEPT !.started_at = NoTime]
    ELSE assignment

\* lines 558-573: the status write and the timestamp side effects
transitioned(assignment, status) ==
    LET old_status == assignment.status
        updated == [assignment EXCEPT !.status = status]
    IN  IF status = "in_progress" THEN enter_in_progress(updated, old_status)
        ELSE IF status = "completed" THEN enter_completed(updated)
        ELSE IF status = "assigned" THEN enter_assigned(updated, old_status)
        ELSE updated

update_my_assignment_status(user, assignment_id, status) ==
    LET outcome == update_my_assignment_status_outcome(user, assignment_id, status)
    IN  /\ last' = [op |-> "update_my_assignment_status", user |-> user,
                    id |-> assignment_id, req |-> [status |-> status],
                    outcome |-> outcome, at |-> now, old |-> assignments]
        /\ assignments' =
              IF outcome = "OK"
              THEN [assignments EXCEPT ![assignment_id] = transitioned(@, status)]
              ELSE assignments
        /\ UNCHANGED <<projects, collaborators, zones, pending,
                     completion_areas, oauth_states, users, oauth_history, now>>

(***************************************************************************)
(* routers/projects.py: create_project, delete_project, collaborators      *)
(***************************************************************************)
\* the tables a project request may touch, as they are before the request
ProjectTables == [projects |-> projects, collaborators |-> collaborators,
                  zones |-> zones, assignments |-> assignments,
                  completion_areas |-> completion_areas]

\* new_id is the uuid4 primary key drawn for the row
create_project(user, new_id) ==
    /\ new_id \notin DOMAIN projects
    /\ last' = [op |-> "create_project", user |-> user, id |-> new_id,
                req |-> None, outcome |-> "OK", at |-> now,
                old |-> ProjectTables]
    /\ projects' = Insert(projects, new_id, [owner_id |-> user])
    /\ UNCHANGED <<collaborators, zones, assignments, pending,
                     completion_areas, oauth_states, users, oauth_history, now>>

delete_project_outcome(user, project_id) ==
    check_project_access(project_id, user, OWNER)

\* db.delete(project): Project.collaborators and Project.zones cascade
\* (models/project.py 41-42), Zone.assignments cascades (models/zone.py 29),
\* ZoneAssignment.completion_areas cascades (models/zone.py 53)
delete_project(user, project_id) ==
    LET outcome == delete_project_outcome(user, project_id)
        dead_zones == {z \in DOMAIN zones : zones[z].project_id = project_id}
        dead_assignments ==
            {a \in DOMAIN assignments : assignments[a].zone_id \in dead_zones}
    IN  /\ last' = [op |-> "delete_project", user |-> user, id |-> project_id,
                    req |-> None, outcome |-> outcome, at |-> now,
                    old |-> ProjectTables]
        /\ IF outcome = "OK"
           THEN /\ projects' = Delete(projects, {project_id})
                /\ collaborators' =
                      {c \in collaborators : c.project_id # project_id}
                /\ zones' = Delete(zones, dead_zones)
                /\ assignments' = Delete(assignments, dead_assignments)
                /\ completion_areas' =
                      Delete(completion_areas, areas_of(dead_assignments))
           ELSE UNCHANGED <<projects, collaborators, zones, assignments,
                            completion_areas>>
        /\ UNCHANGED <<pending, oauth_states, users, oauth_history, now>>

\* invite_data.email names the user `invited`; every email of the model
\* belongs to a user
\* faulty variant: neither the existing row nor the owner is looked for
invite_collaborator_outcome_unguarded(user, project_id, invited) ==
    IF check_project_access(project_id, user, ORGANIZER) # "OK"
    THEN check_project_access(project_id, user, ORGANIZER)
    ELSE IF invited \notin Users THEN "NotFound"
    ELSE "OK"

invite_collaborator_outcome(user, project_id, invited) ==
    IF check_project_access(project_id, user, ORGANIZER) # "OK"
    THEN check_project_access(project_id, user, ORGANIZER)
    ELSE IF invited \notin Users THEN "NotFound"
    ELSE IF CollaboratorRows(project_id, invited) # {} THEN "AlreadyCollaborator"
    ELSE IF invited = projects[project_id].owner_id THEN "OwnerAsCollaborator"
    ELSE "OK"

invite_collaborator(user, project_id, invited, role) ==
    LET outcome == invite_collaborator_outcome(user, project_id, invited)
    IN  /\ last' = [op |-> "invite_collaborator", user |-> user,
                    id |-> project_id,
                    req |-> [user_id |-> invited, role |-> role],
                    outcome |-> outcome, at |-> now, old |-> ProjectTables]
        /\ collaborators' =
              IF outcome = "OK"
              THEN collaborators \cup
                      {[project_id |-> project_id, user_id |-> invited,
                        role |-> role]}
              ELSE collaborators
        /\ UNCHANGED <<projects, zones, assignments, pending,
                     completion_areas, oauth_states, users, oauth_history, now>>

remove_collaborator_outcome(user, project_id, user_id) ==
    IF check_project_access(project_id, user, ORGANIZER) # "OK"
    THEN check_project_access(project_id, user, ORGANIZER)
    ELSE IF CollaboratorRows(project_id, user_id) = {} THEN "NotFound"
    ELSE "OK"

remove_collaborator(user, project_id, user_id) ==
    LET outcome == remove_collaborator_outcome(user, project_id, user_id)
    IN  /\ last' = [op |-> "remove_collaborator", user |-> user,
                    id |-> project_id, req |-> [user_id |-> user_id],
                    outcome |-> outcome, at |-> now, old |-> ProjectTables]
        /\ collaborators' =
              IF outcome = "OK"
              THEN collaborators \ {FirstCollaborator(project_id, user_id)}
              ELSE collaborators
        /\ UNCHANGED <<projects, zones, assignments, pending,
                     completion_areas, oauth_states, users, oauth_history, now>>

(***************************************************************************)
(* Texts: str.strip and str.lower                                          *)
(***************************************************************************)
RECURSIVE lstrip(_)
lstrip(text) ==
    IF text # <<>> /\ Head(text) = " " THEN lstrip(Tail(text)) ELSE text

RECURSIVE rstrip(_)
rstrip(text) ==
    IF text # <<>> /\ text[Len(text)] = " "
    THEN rstrip(SubSeq(text, 1, Len(text) - 1))
    ELSE text

strip(text) == rstrip(lstrip(text))

lower_char(c) ==
    CASE c = "A" -> "a"
      [] c = "B" -> "b"
      [] OTHER -> c

lower(text) == [i \in 1..Len(text) |-> lower_char(text[i])]

(***************************************************************************)
(* Geometries.  A stored geometry is the set of unit cells that it covers: *)
(* ST_Area counts the cells and ST_Union is the union of the sets.  The    *)
(* polygons of the model are rectangles of the grid (a ring with all its   *)
(* vertices on one point or one line is a rectangle with no cell), so the  *)
(* cells of a polygon are those of its bounding box.                       *)
(***************************************************************************)
SetMin(S) == CHOOSE m \in S : \A n \in S : m <= n
SetMax(S) == CHOOSE m \in S : \A n \in S : m >= n

\* the geometry that PostGIS stores for the polygon with this outer ring
\* of [lon, lat] pairs
polygon_cells(ring) ==
    LET lons == {ring[i][1] : i \in DOMAIN ring}
        lats == {ring[i][2] : i \in DOMAIN ring}
    IN  IF ring = <<>> THEN {}
        ELSE (SetMin(lons)..(SetMax(lons) - 1)) \X
             (SetMin(lats)..(SetMax(lats) - 1))

ST_Area(geometry) == Cardinality(geometry)

\* faulty variant: the part common to all geometries
ST_Intersection(geometries) ==
    {c \in UNION geometries : \A g \in geometries : c \in g}

\* the aggregate over a non-empty set of geometries
ST_Union(geometries) == UNION geometries

(***************************************************************************)
(* utils/kml_parser.py: parse_kml                                          *)
(***************************************************************************)
\* the text that the f-string of an error shows for a placemark with no
\* name element, and for a name element whose .text is None
Unknown == <<"U", "n", "k", "n", "o", "w", "n">>
NoneText == <<"N", "o", "n", "e">>

\* _extract_polygon and _parse_placemark return None
NoGeometry == <<>>
NoZone == [name |-> <<>>, geometry |-> NoGeometry]

\* the errors of parse_kml: the fixed part of the message and the zone name
\* put into it
Error(message, zone_name) == [message |-> message, zone_name |-> zone_name]

\* lines 148-157: a token with at least two comma-separated parts of which
\* the first two parse as floats
is_pair(token) == token.parts >= 2 /\ token.numeric

\* lines 132-159: the [lon, lat] pairs of the tokens that parse
parse_coordinates(tokens) ==
    LET pairs == SelectSeq(tokens, is_pair)
    IN  [i \in 1..Len(pairs) |-> <<pairs[i].lon, pairs[i].lat>>]

\* faulty variant: the first vertex is appended to every ring
closed_always_appending(coordinates) ==
    Append(coordinates, coordinates[1])

\* lines 121-123: the ring is closed when it is not
closed(coordinates) ==
    IF coordinates[1] # coordinates[Len(coordinates)]
    THEN Append(coordinates, coordinates[1])
    ELSE coordinates

\* lines 100-129; an empty coordinates text stands for a missing outer
\* boundary as well
extract_polygon(placemark) ==
    IF ~placemark.polygon THEN NoGeometry
    ELSE IF placemark.coordinates = <<>> THEN NoGeometry
    ELSE LET coordinates == parse_coordinates(placemark.coordinates)
         IN  IF Len(coordinates) < 3 THEN NoGeometry
             ELSE closed(coordinates)

\* line 67: the stripped name, or <<>> for None; an element without
\* character data has .text None
placemark_name(placemark) ==
    IF placemark.name.present /\ placemark.name.text # <<>>
    THEN strip(placemark.name.text)
    ELSE <<>>

\* lines 62-97; description, color and kml_metadata are not modelled
parse_placemark(placemark) ==
    LET name == placemark_name(placemark)
        geometry == extract_polygon(placemark)
    IN  IF name = <<>> THEN NoZone
        ELSE IF geometry = NoGeometry THEN NoZone
        ELSE [name |-> name, geometry |-> geometry]

\* lines 43-44: the name shown in the error of a placemark
error_name(placemark) ==
    IF ~placemark.name.present THEN Unknown
    ELSE IF placemark.name.text = <<>> THEN NoneText
    ELSE placemark.name.text

\* faulty variant: the first placemark that fails ends the batch
parse_placemarks_aborting(placemarks, zones_acc, errors_acc) ==
    LET Failed(i) == parse_placemark(placemarks[i]) = NoZone
        failures == {i \in DOMAIN placemarks : Failed(i)}
        first == IF failures = {} THEN Len(placemarks) + 1
                 ELSE CHOOSE i \in failures : \A j \in failures : i <= j
    IN  [zones |-> zones_acc \o [i \in 1..(first - 1) |->
                                    parse_placemark(placemarks[i])],
         errors |-> IF failures = {} THEN errors_acc
                    ELSE Append(errors_acc,
                                Error("Failed to parse placemark",
                                      error_name(placemarks[first])))]

\* the loop of lines 37-49; _parse_placemark raises for no placemark of the
\* model, so the except branch is not taken
RECURSIVE parse_placemarks(_, _, _)
parse_placemarks(placemarks, zones_acc, errors_acc) ==
    IF placemarks = <<>> THEN [zones |-> zones_acc, errors |-> errors_acc]
    ELSE LET placemark == Head(placemarks)
             zone_data == parse_placemark(placemark)
         IN  IF zone_data # NoZone
             THEN parse_placemarks(Tail(placemarks),
                                   Append(zones_acc, zone_data), errors_acc)
             ELSE parse_placemarks(Tail(placemarks), zones_acc,
                                   Append(errors_acc,
                                          Error("Failed to parse placemark",
                                                error_name(placemark))))

\* faulty variant: a document without a placemark gives no error
parse_kml_accepting_empty(kml_content) ==
    IF ~kml_content.well_formed
    THEN [zones |-> <<>>, errors |-> <<Error("Invalid KML format", <<>>)>>]
    ELSE IF kml_content.placemarks = <<>>
    THEN [zones |-> <<>>, errors |-> <<>>]
    ELSE LET parsed == parse_placemarks(kml_content.placemarks, <<>>, <<>>)
         IN  IF parsed.zones = <<>> /\ parsed.errors = <<>>
             THEN [parsed EXCEPT !.errors =
                      <<Error("No valid zones found in KML file", <<>>)>>]
             ELSE parsed

\* lines 7-59: no exception leaves the function, a parse error of the
\* markup is returned as the one error "Invalid KML format"; kml_content.placemarks are the Placemark elements in the KML
\* namespace that root.findall returns
parse_kml(kml_content) ==
    IF ~kml_content.well_formed
    THEN [zones |-> <<>>, errors |-> <<Error("Invalid KML format", <<>>)>>]
    ELSE IF kml_content.placemarks = <<>>
    THEN [zones |-> <<>>,
          errors |-> <<Error("No placemarks found in KML file", <<>>)>>]
    ELSE LET parsed == parse_placemarks(kml_content.placemarks, <<>>, <<>>)
         IN  IF parsed.zones = <<>> /\ parsed.errors = <<>>
             THEN [parsed EXCEPT !.errors =
                      <<Error("No valid zones found in KML file", <<>>)>>]
             ELSE parsed

(***************************************************************************)
(* routers/zones.py: _check_project_access, preview_kml, import_kml        *)
(***************************************************************************)
\* faulty variant: a collaborator needs the role of an organizer
zones_check_project_access_for_organizers(project_id, user) ==
    check_project_access(project_id, user, ORGANIZER)

\* lines 27-50: the owner and every collaborator pass
zones_check_project_access(project_id, user) ==
    IF project_id \notin DOMAIN projects THEN "NotFound"
    ELSE IF projects[project_id].owner_id = user
            \/ \E c \in collaborators :
                  c.project_id = project_id /\ c.user_id = user
    THEN "OK"
    ELSE "Forbidden"

\* lines 92-101 and 122-131: the access check, then the parse; "ParseFailed"
\* is the 400 response "Failed to parse KML"
parse_request_outcome(user, project_id, kml_content) ==
    IF zones_check_project_access(project_id, user) # "OK"
    THEN zones_check_project_access(project_id, user)
    ELSE IF parse_kml(kml_content).zones = <<>>
            /\ parse_kml(kml_content).errors # <<>>
    THEN "ParseFailed"
    ELSE "OK"

\* lines 83-110; the response, or the errors of the 400 detail
preview_kml(user, project_id, kml_content) ==
    LET outcome == parse_request_outcome(user, project_id, kml_content)
        parsed == parse_kml(kml_content)
        zone_names == [i \in 1..Len(parsed.zones) |-> parsed.zones[i].name]
    IN  /\ last' = [op |-> "preview_kml", user |-> user, id |-> project_id,
                    req |-> [kml_content |-> kml_content],
                    outcome |-> outcome, at |-> now, old |-> zones,
                    result |-> IF outcome \in {"OK", "ParseFailed"}
                               THEN [zone_count |-> Len(zone_names),
                                     zone_names |-> zone_names,
                                     errors |-> parsed.errors]
                               ELSE [zone_count |-> 0, zone_names |-> <<>>,
                                     errors |-> <<>>]]
        /\ UNCHANGED <<projects, collaborators, zones, assignments, pending,
                     completion_areas, oauth_states, users, oauth_history, now>>

\* lines 135-149: the candidates that are not on the skip list, compared
\* in lower case
not_skipped(zones_data, zones_to_skip) ==
    LET zones_to_skip_lower == {lower(name) : name \in zones_to_skip}
        wanted(zone_data) == lower(zone_data.name) \notin zones_to_skip_lower
    IN  SelectSeq(zones_data, wanted)

\* faulty variant: a refused row is left out and the others stay in the
\* transaction
insert_zones_skipping_refused(to_create, refused) ==
    LET accepted(zone_data) == zone_data.name \notin refused
        not_accepted(zone_data) == zone_data.name \in refused
        failed == SelectSeq(to_create, not_accepted)
    IN  [created_zones |-> SelectSeq(to_create, accepted),
         errors |-> [i \in 1..Len(failed) |->
                        Error("Failed to create zone", failed[i].name)],
         active |-> TRUE]

\* the loop of lines 145-173 over the candidates to create.  `refused` are
\* the names of the rows that the database refuses at db.flush() (a name
\* longer than the column, a geometry PostGIS rejects).  db.flush() of a
\* refused row raises inside the session's transaction: the transaction is
\* rolled back with everything flushed before, and every later db.flush()
\* of the request raises as well; each raise is caught by the except of
\* line 172.  created_zones keeps the zones flushed before the failure;
\* active tells whether the transaction can still commit.
insert_zones(to_create, refused) ==
    LET failures == {i \in DOMAIN to_create : to_create[i].name \in refused}
        first == IF failures = {} THEN Len(to_create) + 1
                 ELSE CHOOSE i \in failures : \A j \in failures : i <= j
    IN  [created_zones |-> SubSeq(to_create, 1, first - 1),
         errors |-> [i \in 1..(Len(to_create) - first + 1) |->
                        Error("Failed to create zone",
                              to_create[first + i - 1].name)],
         active |-> failures = {}]

\* lines 133-188 for a request that passed the access check and the parse
\* check: the zones flushed, all errors, and how the request ends.
\* "ImportFailed" is the 400 response "Failed to import zones";
\* "ServerError" is the 500 of a db.commit() that raises because the
\* transaction was rolled back by a failed flush
import_result(kml_content, zones_to_skip, refused) ==
    LET parsed == parse_kml(kml_content)
        inserted == insert_zones(not_skipped(parsed.zones, zones_to_skip),
                                 refused)
        errors == parsed.errors \o inserted.errors
    IN  [created_zones |-> inserted.created_zones,
         errors |-> errors,
         outcome |-> IF inserted.created_zones # <<>>
                     THEN IF inserted.active THEN "OK" ELSE "ServerError"
                     ELSE IF errors # <<>> THEN "ImportFailed"
                     ELSE "OK"]

\* faulty variant: a parse with no candidate and errors is an empty import
import_kml_outcome_without_parse_check(user, project_id, kml_content, zones_to_skip, refused) ==
    IF zones_check_project_access(project_id, user) # "OK"
    THEN zones_check_project_access(project_id, user)
    ELSE IF import_result(kml_content, zones_to_skip, refused).created_zones = <<>>
    THEN "OK"
    ELSE import_result(kml_content, zones_to_skip, refused).outcome

import_kml_outcome(user, project_id, kml_content, zones_to_skip, refused) ==
    IF parse_request_outcome(user, project_id, kml_content) # "OK"
    THEN parse_request_outcome(user, project_id, kml_content)
    ELSE import_result(kml_content, zones_to_skip, refused).outcome

\* the keys of ZoneIdOrder that no zone has yet
free_zone_ids == LET free(z) == z \notin DOMAIN zones
                 IN  SelectSeq(ZoneIdOrder, free)

\* the rows of the committed zones under their new keys
imported_rows(project_id, committed, new_ids) ==
    [z \in {new_ids[i] : i \in DOMAIN committed} |->
        LET i == CHOOSE i \in DOMAIN committed : new_ids[i] = z
        IN  [project_id |-> project_id, name |-> committed[i].name,
             geometry |-> polygon_cells(committed[i].geometry)]]

\* lines 113-213
import_kml(user, project_id, kml_content, zones_to_skip, refused) ==
    \E outcome \in {import_kml_outcome(user, project_id, kml_content,
                                       zones_to_skip, refused)},
       result \in {import_result(kml_content, zones_to_skip, refused)} :
       \E committed \in {IF outcome = "OK" THEN result.created_zones ELSE <<>>} :
          /\ Len(committed) <= Len(free_zone_ids)
          /\ last' = [op |-> "import_kml", user |-> user, id |-> project_id,
                      req |-> [kml_content |-> kml_content,
                               zones_to_skip |-> zones_to_skip,
                               refused |-> refused],
                      outcome |-> outcome, at |-> now, old |-> zones,
                      result |-> [zones_created |-> Len(committed),
                                  errors |->
                                     IF outcome \in {"OK", "ImportFailed"}
                                     THEN result.errors
                                     ELSE IF outcome = "ParseFailed"
                                     THEN parse_kml(kml_content).errors
                                     ELSE <<>>]]
          /\ zones' = imported_rows(project_id, committed, free_zone_ids) @@ zones
          /\ UNCHANGED <<projects, collaborators, assignments, pending,
                     completion_areas, oauth_states, users, oauth_history, now>>

(***************************************************************************)
(* routers/zones.py: delete_all_zones, delete_zone                         *)
(***************************************************************************)
\* the tables a zone request may touch, as they are before the request
ZoneTables == [zones |-> zones, assignments |-> assignments,
               completion_areas |-> completion_areas]

assignments_of(zone_ids) ==
    {a \in DOMAIN assignments : assignments[a].zone_id \in zone_ids}

\* faulty variant: the bulk delete removes the rows of zones only
delete_all_zones_without_cascade(user, project_id) ==
    LET outcome == zones_check_project_access(project_id, user)
        dead_zones == {z \in DOMAIN zones : zones[z].project_id = project_id}
    IN  /\ last' = [op |-> "delete_all_zones", user |-> user,
                    id |-> project_id, req |-> None, outcome |-> outcome,
                    at |-> now, old |-> ZoneTables]
        /\ zones' = IF outcome = "OK" THEN Delete(zones, dead_zones) ELSE zones
        /\ UNCHANGED <<projects, collaborators, assignments, pending,
                       completion_areas, oauth_states, users, oauth_history, now>>

\* lines 215-230: a bulk DELETE of the zones of the project; the database
\* removes the rows that refer to them, as zone_assignments.zone_id and
\* completion_areas.assignment_id are declared ON DELETE CASCADE
\* (models/zone.py 39, models/completion.py 20)
delete_all_zones(user, project_id) ==
    LET outcome == zones_check_project_access(project_id, user)
        dead_zones == {z \in DOMAIN zones : zones[z].project_id = project_id}
        dead_assignments == assignments_of(dead_zones)
    IN  /\ last' = [op |-> "delete_all_zones", user |-> user,
                    id |-> project_id, req |-> None, outcome |-> outcome,
                    at |-> now, old |-> ZoneTables]
        /\ IF outcome = "OK"
           THEN /\ zones' = Delete(zones, dead_zones)
                /\ assignments' = Delete(assignments, dead_assignments)
                /\ completion_areas' =
                      Delete(completion_areas, areas_of(dead_assignments))
           ELSE UNCHANGED <<zones, assignments, completion_areas>>
        /\ UNCHANGED <<projects, collaborators, pending, oauth_states, users, oauth_history, now>>

delete_zone_outcome(user, zone_id) ==
    IF zone_id \notin DOMAIN zones THEN "NotFound"
    ELSE zones_check_project_access(zones[zone_id].project_id, user)

\* lines 233-255: db.delete(zone); Zone.assignments and
\* ZoneAssignment.completion_areas cascade (models/zone.py 29, 53)
delete_zone(user, zone_id) ==
    LET outcome == delete_zone_outcome(user, zone_id)
        dead_assignments == assignments_of({zone_id})
    IN  /\ last' = [op |-> "delete_zone", user |-> user, id |-> zone_id,
                    req |-> None, outcome |-> outcome, at |-> now,
                    old |-> ZoneTables]
        /\ IF outcome = "OK"
           THEN /\ zones' = Delete(zones, {zone_id})
                /\ assignments' = Delete(assignments, dead_assignments)
                /\ completion_areas' =
                      Delete(completion_areas, areas_of(dead_assignments))
           ELSE UNCHANGED <<zones, assignments, completion_areas>>
        /\ UNCHANGED <<projects, collaborators, pending, oauth_states, users, oauth_history, now>>

(***************************************************************************)
(* routers/assignments.py: get_available_volunteers                        *)
(***************************************************************************)
\* lines 329-337 and 356-364: the assignments of the user on zones of the
\* project that are assigned or in progress
current_assignments_count(project_id, user) ==
    Cardinality({a \in DOMAIN assignments :
                    /\ assignments[a].zone_id \in DOMAIN zones
                    /\ zones[assignments[a].zone_id].project_id = project_id
                    /\ assignments[a].volunteer_id = user
                    /\ assignments[a].status \in {"assigned", "in_progress"}})

\* lines 325-372: the owner and the users of the collaborator rows
project_members(project_id) ==
    {projects[project_id].owner_id} \cup
    {c.user_id : c \in {r \in collaborators : r.project_id = project_id}}

\* faulty variant: a completed assignment counts as well
assigned_ids_of_any_status(zone_id) ==
    {assignments[a].volunteer_id :
        a \in {b \in DOMAIN assignments : assignments[b].zone_id = zone_id}}

\* lines 376-383: the volunteers of the assignments of the zone that are
\* not completed
assigned_ids(zone_id) ==
    {assignments[a].volunteer_id :
        a \in {b \in DOMAIN assignments :
                  /\ assignments[b].zone_id = zone_id
                  /\ assignments[b].status # "completed"}}

\* lines 323-386: the listed users with their counts; zone_id None is a
\* request without the query parameter
available_volunteers(project_id, zone_id) ==
    LET listed == IF zone_id = None THEN project_members(project_id)
                  ELSE project_members(project_id) \ assigned_ids(zone_id)
    IN  [u \in listed |-> current_assignments_count(project_id, u)]

\* lines 315-386; the request changes no table
get_available_volunteers(user, project_id, zone_id) ==
    LET outcome == check_can_assign_volunteers(project_id, user)
    IN  /\ last' = [op |-> "get_available_volunteers", user |-> user,
                    id |-> project_id, req |-> [zone_id |-> zone_id],
                    outcome |-> outcome, at |-> now, old |-> assignments,
                    result |-> IF outcome = "OK"
                               THEN available_volunteers(project_id, zone_id)
                               ELSE EmptyTable]
        /\ UNCHANGED <<projects, collaborators, zones, assignments, pending,
                       completion_areas, oauth_states, users, oauth_history,
                       now>>

(***************************************************************************)
(* routers/assignments.py: update_my_assignment                            *)
(***************************************************************************)
\* schemas/assignment.py 27-30; NoPercentage is a body without the field,
\* every str is a valid notes
VolunteerAssignmentUpdate_valid(manual_completion_percentage) ==
    \/ manual_completion_percentage = NoPercentage
    \/ manual_completion_percentage \in 0..100

update_my_assignment_outcome(user, assignment_id, manual_completion_percentage) ==
    IF ~VolunteerAssignmentUpdate_valid(manual_completion_percentage)
    THEN "ValidationError"
    ELSE check_assignment_access(assignment_id, user, TRUE)

\* faulty variant: a manual percentage of 100 completes the assignment
volunteer_updated_completing(assignment, notes, manual_completion_percentage) ==
    [assignment EXCEPT
        !.notes = IF notes # None THEN notes ELSE @,
        !.manual_completion_percentage =
            IF manual_completion_percentage # NoPercentage
            THEN manual_completion_percentage ELSE @,
        !.status = IF manual_completion_percentage = 100 THEN "completed"
                   ELSE @]

\* lines 618-624: the fields of the body that are not None are written;
\* None and NoPercentage stand for a body without the field
volunteer_updated(assignment, notes, manual_completion_percentage) ==
    [assignment EXCEPT
        !.notes = IF notes # None THEN notes ELSE @,
        !.manual_completion_percentage =
            IF manual_completion_percentage # NoPercentage
            THEN manual_completion_percentage ELSE @]

\* lines 606-627
update_my_assignment(user, assignment_id, notes, manual_completion_percentage) ==
    LET outcome == update_my_assignment_outcome(user, assignment_id,
                                                manual_completion_percentage)
    IN  /\ last' = [op |-> "update_my_assignment", user |-> user,
                    id |-> assignment_id,
                    req |-> [notes |-> notes,
                             manual_completion_percentage |->
                                manual_completion_percentage],
                    outcome |-> outcome, at |-> now, old |-> assignments]
        /\ assignments' =
              IF outcome = "OK"
              THEN [assignments EXCEPT
                       ![assignment_id] =
                           volunteer_updated(@, notes,
                                             manual_completion_percentage)]
              ELSE assignments
        /\ UNCHANGED <<projects, collaborators, zones, pending,
                       completion_areas, oauth_states, users, oauth_history,
                       now>>

(***************************************************************************)
(* routers/completions.py.  A request carries a GeoJSON dict               *)
(* [type, coordinates]; the coordinates of a Polygon are its outer ring.   *)
(* "InvalidGeometry" is the 400 response "Invalid geometry".               *)
(***************************************************************************)
\* line 45: shape() raises for a dict that is no GeoJSON geometry
shape_valid(geometry) == geometry.type \in {"Polygon", "Point"}

\* lines 45-46: the geometry that is stored; a point covers no cell
from_shape(geometry) ==
    IF geometry.type = "Polygon" THEN polygon_cells(geometry.coordinates)
    ELSE {}

\* faulty variant: the caller need not be the volunteer
create_completion_area_outcome_for_anybody(user, assignment_id, geometry) ==
    IF assignment_id \notin DOMAIN assignments THEN "NotFound"
    ELSE IF ~shape_valid(geometry) THEN "InvalidGeometry"
    ELSE "OK"

create_completion_area_outcome(user, assignment_id, geometry) ==
    IF assignment_id \notin DOMAIN assignments THEN "NotFound"
    ELSE IF assignments[assignment_id].volunteer_id # user THEN "Forbidden"
    ELSE IF ~shape_valid(geometry) THEN "InvalidGeometry"
    ELSE "OK"

\* lines 21-76; new_id is the uuid4 primary key drawn for the row
create_completion_area(user, assignment_id, geometry, new_id) ==
    LET outcome == create_completion_area_outcome(user, assignment_id, geometry)
    IN  /\ new_id \notin DOMAIN completion_areas
        /\ last' = [op |-> "create_completion_area", user |-> user,
                    id |-> assignment_id, req |-> [geometry |-> geometry],
                    outcome |-> outcome, at |-> now, old |-> completion_areas]
        /\ completion_areas' =
              IF outcome = "OK"
              THEN Insert(completion_areas, new_id,
                          [assignment_id |-> assignment_id,
                           geometry |-> from_shape(geometry)])
              ELSE completion_areas
        /\ UNCHANGED <<projects, collaborators, zones, assignments, pending, oauth_states, users,
                       oauth_history, now>>

delete_completion_area_outcome(user, area_id) ==
    IF area_id \notin DOMAIN completion_areas THEN "NotFound"
    ELSE IF assignments[completion_areas[area_id].assignment_id].volunteer_id
               # user
    THEN "Forbidden"
    ELSE "OK"

\* lines 122-150
delete_completion_area(user, area_id) ==
    LET outcome == delete_completion_area_outcome(user, area_id)
    IN  /\ last' = [op |-> "delete_completion_area", user |-> user,
                    id |-> area_id, req |-> None, outcome |-> outcome,
                    at |-> now, old |-> completion_areas]
        /\ completion_areas' =
              IF outcome = "OK" THEN Delete(completion_areas, {area_id})
              ELSE completion_areas
        /\ UNCHANGED <<projects, collaborators, zones, assignments, pending, oauth_states, users,
                       oauth_history, now>>

get_completion_areas_outcome(user, assignment_id) ==
    IF assignment_id \notin DOMAIN assignments THEN "NotFound"
    ELSE IF assignments[assignment_id].volunteer_id # user THEN "Forbidden"
    ELSE "OK"

\* lines 79-119; the response lists the marks of the assignment; the
\* request changes no table
get_completion_areas(user, assignment_id) ==
    LET outcome == get_completion_areas_outcome(user, assignment_id)
    IN  /\ last' = [op |-> "get_completion_areas", user |-> user,
                    id |-> assignment_id, req |-> None, outcome |-> outcome,
                    at |-> now, old |-> completion_areas,
                    result |-> IF outcome = "OK"
                               THEN areas_of({assignment_id})
                               ELSE {}]
        /\ UNCHANGED <<projects, collaborators, zones, assignments, pending,
                       completion_areas, oauth_states, users, oauth_history,
                       now>>

\* lines 196-200: the marks of the assignment in a table of marks
areas(area_table, assignment_id) ==
    {m \in DOMAIN area_table : area_table[m].assignment_id = assignment_id}

\* the areas of the marks, added up
RECURSIVE summed_area(_, _)
summed_area(area_table, marks) ==
    IF marks = {} THEN 0
    ELSE LET m == CHOOSE m \in marks : TRUE
         IN  ST_Area(area_table[m].geometry)
                + summed_area(area_table, marks \ {m})

\* faulty variant: the marks are added up
union_query_summing(area_table, assignment_id) ==
    summed_area(area_table, areas(area_table, assignment_id))

\* lines 214-220: ST_Area(ST_Union(geometry)) over the marks of the
\* assignment
union_query(area_table, assignment_id) ==
    ST_Area(ST_Union({area_table[m].geometry :
                         m \in areas(area_table, assignment_id)}))

\* numerator / denominator * 100 rounded to two decimals, in hundredths
hundredths(numerator, denominator) ==
    (2 * 10000 * numerator + denominator) \div (2 * denominator)

\* faulty variant: no upper limit
progress_percentage_unclamped(completed_area, total_area) ==
    IF total_area > 0 THEN hundredths(completed_area, total_area) ELSE 0

\* line 222 and the round(., 2) of line 229: the percentage in hundredths
\* of a percent, 10000 is 100.00
progress_percentage(completed_area, total_area) ==
    IF total_area > 0
    THEN IF hundredths(completed_area, total_area) > 10000 THEN 10000
         ELSE hundredths(completed_area, total_area)
    ELSE 0

ProgressResponse(total_area, completed_area, percentage, count) ==
    [total_area_sqm |-> total_area, completed_area_sqm |-> completed_area,
     progress_percentage |-> percentage, completion_count |-> count]

\* faulty variant: a manual percentage, when set, is the one reported
completion_progress_preferring_manual(assignment_table, zone_table, area_table, assignment_id) ==
    LET assignment == assignment_table[assignment_id]
        total_area == ST_Area(zone_table[assignment.zone_id].geometry)
        marks == areas(area_table, assignment_id)
        completed_area == union_query(area_table, assignment_id)
    IN  IF total_area = 0 THEN ProgressResponse(0, 0, 0, 0)
        ELSE IF marks = {} THEN ProgressResponse(total_area, 0, 0, 0)
        ELSE ProgressResponse(
                 total_area, completed_area,
                 IF assignment.manual_completion_percentage # NoPercentage
                 THEN 100 * assignment.manual_completion_percentage
                 ELSE progress_percentage(completed_area, total_area),
                 Cardinality(marks))

\* faulty variant: without marks the area of the zone is not reported
completion_progress_hiding_total(assignment_table, zone_table, area_table, assignment_id) ==
    LET assignment == assignment_table[assignment_id]
        total_area == ST_Area(zone_table[assignment.zone_id].geometry)
        marks == areas(area_table, assignment_id)
        completed_area == union_query(area_table, assignment_id)
    IN  IF total_area = 0 \/ marks = {} THEN ProgressResponse(0, 0, 0, 0)
        ELSE ProgressResponse(total_area, completed_area,
                              progress_percentage(completed_area, total_area),
                              Cardinality(marks))

\* lines 176-231: the response computed from the rows of the tables
completion_progress(assignment_table, zone_table, area_table, assignment_id) ==
    LET assignment == assignment_table[assignment_id]
        total_area == ST_Area(zone_table[assignment.zone_id].geometry)
        marks == areas(area_table, assignment_id)
        completed_area == union_query(area_table, assignment_id)
    IN  IF total_area = 0 THEN ProgressResponse(0, 0, 0, 0)
        ELSE IF marks = {} THEN ProgressResponse(total_area, 0, 0, 0)
        ELSE ProgressResponse(total_area, completed_area,
                              progress_percentage(completed_area, total_area),
                              Cardinality(marks))

get_completion_progress_outcome(user, assignment_id) ==
    IF assignment_id \notin DOMAIN assignments THEN "NotFound"
    ELSE IF assignments[assignment_id].volunteer_id # user THEN "Forbidden"
    ELSE IF assignments[assignment_id].zone_id \notin DOMAIN zones
    THEN "NotFound"
    ELSE "OK"

NoProgress == ProgressResponse(0, 0, 0, 0)

\* lines 153-231; the request changes no table
get_completion_progress(user, assignment_id) ==
    LET outcome == get_completion_progress_outcome(user, assignment_id)
    IN  /\ last' = [op |-> "get_completion_progress", user |-> user,
                    id |-> assignment_id, req |-> None, outcome |-> outcome,
                    at |-> now, old |-> completion_areas,
                    result |-> IF outcome = "OK"
                               THEN completion_progress(
                                        assignments, zones, completion_areas,
                                        assignment_id)
                               ELSE NoProgress]
        /\ UNCHANGED <<projects, collaborators, zones, assignments, pending,
                       completion_areas, oauth_states, users, oauth_history, now>>

(***************************************************************************)
(* routers/auth.py: google_login, google_callback.  oauth_states is the    *)
(* module-level dict of the server process, of which the keys are kept.    *)
(* Both handlers read and write it without an await in between, so each    *)
(* is one step.  oauth_history lists the login requests that were          *)
(* answered: [op, state, outcome].  "InvalidState", "ExchangeFailed" and   *)
(* "UserInfoFailed" are the 400 responses of google_callback.              *)
(***************************************************************************)
NoLogins ==
    /\ oauth_states = {}
    /\ users = EmptyTable
    /\ oauth_history = <<>>

\* the states that google_login has returned
Issued ==
    {oauth_history[i].state :
        i \in {j \in DOMAIN oauth_history : oauth_history[j].op = "google_login"}}

\* lines 173-179: the state is stored, then the dict is cleared
states_after_login(states, state) ==
    LET stored == states \cup {state}
        cleared == {}
    IN  cleared

\* lines 165-181; state is the fresh value that generate_auth_url returns
\* (services/oauth_service.py 29)
google_login(state) ==
    /\ Len(oauth_history) < MaxAuthRequests
    /\ state \notin Issued
    /\ oauth_states' = states_after_login(oauth_states, state)
    /\ oauth_history' = Append(oauth_history,
                               [op |-> "google_login", state |-> state,
                                outcome |-> "OK"])
    /\ last' = [op |-> "google_login", user |-> None, id |-> None,
                req |-> None, outcome |-> "OK", at |-> now,
                old |-> [oauth_states |-> oauth_states, users |-> users],
                result |-> [state |-> state]]
    /\ UNCHANGED <<projects, collaborators, zones, assignments, pending,
                   completion_areas, users, now>>

\* what Google answers to the code of a callback: no token, a token for
\* which no user info is returned, or the user info of an account
NoToken == [token |-> FALSE, user_info |-> FALSE, google_id |-> None,
            name |-> None]
NoUserInfo == [token |-> TRUE, user_info |-> FALSE, google_id |-> None,
               name |-> None]
UserInfo(google_id, name) ==
    [token |-> TRUE, user_info |-> TRUE, google_id |-> google_id,
     name |-> name]

\* faulty variant: the state of the request is not looked up
google_callback_outcome_unchecked(state, answer) ==
    IF ~answer.token THEN "ExchangeFailed"
    ELSE IF ~answer.user_info THEN "UserInfoFailed"
    ELSE "OK"

\* lines 201-228
google_callback_outcome(state, answer) ==
    IF state \notin oauth_states THEN "InvalidState"
    ELSE IF ~answer.token THEN "ExchangeFailed"
    ELSE IF ~answer.user_info THEN "UserInfoFailed"
    ELSE "OK"

\* lines 231-250: the user with the google_id is updated, or created
signed_in(answer) ==
    Insert(users, answer.google_id,
           [name |-> answer.name, last_login |-> now])

\* lines 183-277; the email and the picture of the user and the tokens of
\* the response are not modelled
google_callback(state, answer) ==
    LET outcome == google_callback_outcome(state, answer)
    IN  /\ Len(oauth_history) < MaxAuthRequests
        /\ oauth_states' = IF outcome = "InvalidState" THEN oauth_states
                           ELSE oauth_states \ {state}
        /\ users' = IF outcome = "OK" THEN signed_in(answer) ELSE users
        /\ oauth_history' = Append(oauth_history,
                                   [op |-> "google_callback", state |-> state,
                                    outcome |-> outcome])
        /\ last' = [op |-> "google_callback", user |-> None, id |-> None,
                    req |-> [state |-> state, answer |-> answer],
                    outcome |-> outcome, at |-> now,
                    old |-> [oauth_states |-> oauth_states, users |-> users],
                    result |-> [state |-> state]]
        /\ UNCHANGED <<projects, collaborators, zones, assignments, pending,
                       completion_areas, now>>

(***************************************************************************)
(* Time                                                                    *)
(***************************************************************************)
\* the wall clock read by datetime.utcnow() advances between requests
Tick ==
    /\ now < MaxClock
    /\ now' = now + 1
    /\ UNCHANGED <<projects, collaborators, zones, assignments, pending,
                 completion_areas, oauth_states, users,
                 oauth_history, last>>

(***************************************************************************)
(* The seeded database: two projects with every kind of member.  p1 is     *)
(* owned by u1, with u2 an organizer and u3 a viewer; p2 is owned by u2,   *)
(* u3 holds a collaborator row with role owner and u1 has no role.  Zone   *)
(* z1, named "A", belongs to p1 and z2, named "B", to p2; z1 is a strip of *)
(* 10 cells and z2 a polygon without area.                                 *)
(***************************************************************************)
NoRequest == [op |-> "none", user |-> None, id |-> None, req |-> None,
              outcome |-> None, at |-> NoTime, old |-> EmptyTable]

\* the outer rings of the seeded zones: a strip of 10 cells, and a ring
\* with all its vertices on one point, which has no area
Strip == <<<<0, 0>>, <<10, 0>>, <<10, 1>>, <<0, 1>>, <<0, 0>>>>
Degenerate == <<<<0, 0>>, <<0, 0>>, <<0, 0>>, <<0, 0>>>>

SeededProjects ==
    /\ projects = [p \in ProjectIds |->
                     [owner_id |-> IF p = "p1" THEN "u1" ELSE "u2"]]
    /\ collaborators =
          {[project_id |-> "p1", user_id |-> "u2", role |-> ORGANIZER],
           [project_id |-> "p1", user_id |-> "u3", role |-> PROJECT_VIEWER],
           [project_id |-> "p2", user_id |-> "u3", role |-> OWNER]}
    /\ zones = [z \in ZoneIds |->
                  IF z = "z1"
                  THEN [project_id |-> "p1", name |-> <<"A">>,
                        geometry |-> polygon_cells(Strip)]
                  ELSE [project_id |-> "p2", name |-> <<"B">>,
                        geometry |-> polygon_cells(Degenerate)]]

Init ==
    /\ SeededProjects
    /\ assignments = EmptyTable
    /\ pending = EmptyTable
    /\ completion_areas = EmptyTable
    /\ NoLogins
    /\ now = 1
    /\ last = NoRequest

(***************************************************************************)
(* Specification Spec: the lifecycle of one assignment.  The owner u1 of p1 *)
(* creates and deletes the assignment of volunteer u3 to zone z1, u1 and   *)
(* the organizer u2 override it, u3 requests transitions, and time passes. *)
(***************************************************************************)
Organizers == {"u1", "u2"}

Next ==
    \/ create_assignment("u1", "p1", "z1", "u3", "a1")
    \/ \E u \in Organizers, s \in Statuses \cup {None},
          st \in AdminTimes \cup {NoTime}, ct \in AdminTimes \cup {NoTime} :
          update_assignment(u, "a1", s, st, ct)
    \/ delete_assignment("u1", "a1")
    \/ \E s \in Statuses : update_my_assignment_status("u3", "a1", s)
    \/ Tick

Spec == Init /\ [][Next]_vars

(***************************************************************************)
(* Specification SpecAccess: every user sends every assignment request,    *)
(* to both projects and zones, for existing and missing assignments.       *)
(***************************************************************************)
NextAccess ==
    \/ \E u \in Users, p \in ProjectIds, z \in ZoneIds, v \in Users :
          create_assignment(u, p, z, v, "a1")
    \/ \E u \in Users, a \in AssignmentIds, s \in Statuses \cup {None},
          t \in {NoTime, now} :
          update_assignment(u, a, s, t, t)
    \/ \E u \in Users, a \in AssignmentIds : delete_assignment(u, a)
    \/ \E u \in Users, a \in AssignmentIds, s \in Statuses :
          update_my_assignment_status(u, a, s)

SpecAccess == Init /\ [][NextAccess]_vars

(***************************************************************************)
(* Specification SpecDup: two assignment ids for the pair (z1, u3).        *)
(***************************************************************************)
NextDup ==
    \/ \E id \in AssignmentIds : create_assignment("u1", "p1", "z1", "u3", id)
    \/ \E a \in AssignmentIds, s \in Statuses :
          update_assignment("u1", a, s, NoTime, NoTime)
    \/ \E a \in AssignmentIds : delete_assignment("u1", a)
    \/ \E a \in AssignmentIds, s \in Statuses :
          update_my_assignment_status("u3", a, s)

SpecDup == Init /\ [][NextDup]_vars

(***************************************************************************)
(* Specification SpecProjects: from the empty database, users create and   *)
(* delete project p1 and invite and remove its collaborators; requests     *)
(* also name p2, which never exists.                                       *)
(***************************************************************************)
InitEmpty ==
    /\ projects = EmptyTable
    /\ collaborators = {}
    /\ zones = EmptyTable
    /\ assignments = EmptyTable
    /\ pending = EmptyTable
    /\ completion_areas = EmptyTable
    /\ NoLogins
    /\ now = 1
    /\ last = NoRequest

NextProjects ==
    \/ \E u \in Users : create_project(u, "p1")
    \/ \E u \in Users, p \in ProjectIds : delete_project(u, p)
    \/ \E u \in Users, p \in ProjectIds, v \in Users, r \in CollaboratorRole :
          invite_collaborator(u, p, v, r)
    \/ \E u \in Users, p \in ProjectIds, v \in Users :
          remove_collaborator(u, p, v)

SpecProjects == InitEmpty /\ [][NextProjects]_vars

(***************************************************************************)
(* Specification SpecVolunteer: the owners of p1 and p2 assign volunteers  *)
(* to their zones, the owner of p1 invites and removes collaborators of    *)
(* p1, and every user asks to delete assignments.                          *)
(***************************************************************************)
OwnedZones == {<<"u1", "p1", "z1">>, <<"u2", "p2", "z2">>}

NextVolunteer ==
    \/ \E o \in OwnedZones, v \in Users, id \in AssignmentIds :
          create_assignment(o[1], o[2], o[3], v, id)
    \/ \E v \in Users, r \in CollaboratorRole :
          invite_collaborator("u1", "p1", v, r)
    \/ \E v \in Users : remove_collaborator("u1", "p1", v)
    \/ \E u \in Users, a \in AssignmentIds : delete_assignment(u, a)

SpecVolunteer == Init /\ [][NextVolunteer]_vars

(***************************************************************************)
(* Specification SpecRace: two server processes handle the owner's         *)
(* create_assignment requests for zone z1; the owner also deletes          *)
(* assignments.                                                            *)
(***************************************************************************)
NextRace ==
    \/ \E w \in Workers, v \in Users :
          create_assignment_check(w, "u1", "p1", "z1", v)
    \/ \E w \in Workers, id \in AssignmentIds : create_assignment_insert(w, id)
    \/ \E a \in AssignmentIds : delete_assignment("u1", a)

SpecRace == Init /\ [][NextRace]_vars

(***************************************************************************)
(* KML documents of the requests                                           *)
(***************************************************************************)
\* a coordinates token "lon,lat,0"
Vertex(lon, lat) == [parts |-> 3, numeric |-> TRUE, lon |-> lon, lat |-> lat]

\* an open ring of three vertices, the open ring of a unit square, and a
\* ring that is too short
Triangle == <<Vertex(0, 0), Vertex(1, 0), Vertex(0, 1)>>
Square == <<Vertex(0, 0), Vertex(1, 0), Vertex(1, 1), Vertex(0, 1)>>
ShortRing == <<Vertex(0, 0), Vertex(1, 0)>>

Name(text) == [present |-> TRUE, text |-> text]
NoName == [present |-> FALSE, text |-> <<>>]

Placemark(name, polygon, coordinates) ==
    [name |-> name, polygon |-> polygon, coordinates |-> coordinates]

\* two named polygons; a named point; a named polygon with a malformed
\* ring; polygons with no name element, an empty name, a blank name
ValidA == Placemark(Name(<<"A">>), TRUE, Square)
ValidPaddedB == Placemark(Name(<<" ", "b", " ">>), TRUE, Square)
PointB == Placemark(Name(<<"B">>), FALSE, <<>>)
ShortA == Placemark(Name(<<"a", " ">>), TRUE, ShortRing)
Unnamed == Placemark(NoName, TRUE, Triangle)
EmptyName == Placemark(Name(<<>>), TRUE, Triangle)
BlankName == Placemark(Name(<<" ">>), TRUE, Triangle)

Placemarks ==
    {ValidA, ValidPaddedB, PointB, ShortA, Unnamed, EmptyName, BlankName}

Malformed == [well_formed |-> FALSE, placemarks |-> <<>>]

\* the documents with at most MaxPlacemarks placemarks, and a malformed one
Documents ==
    {Malformed} \cup
    {[well_formed |-> TRUE, placemarks |-> placemarks] :
        placemarks \in UNION {[1..n -> Placemarks] : n \in 0..MaxPlacemarks}}

\* the documents of the import requests: distinct placemarks
ImportPlacemarks == {ValidA, ValidPaddedB, PointB}

Distinct(placemarks) ==
    \A i, j \in DOMAIN placemarks : placemarks[i] = placemarks[j] => i = j

ImportDocuments ==
    {Malformed} \cup
    {[well_formed |-> TRUE, placemarks |-> placemarks] :
        placemarks \in
            {t \in UNION {[1..n -> ImportPlacemarks] : n \in 0..MaxPlacemarks} :
                Distinct(t)}}

\* the skip lists of the requests, and the sets of rows the database refuses
SkipLists == SUBSET {<<"a">>, <<"B">>}
Refusals == {{}, {<<"A">>}, {<<"b">>}}

(***************************************************************************)
(* Specification SpecKml: the owner of p1 asks for the preview of every    *)
(* document, for p1 and for p2, where they have no role.  preview_kml      *)
(* changes no table, so a behaviour is one request.                        *)
(***************************************************************************)
NextKml ==
    /\ last = NoRequest
    /\ \E p \in ProjectIds, d \in Documents : preview_kml("u1", p, d)

SpecKml == Init /\ [][NextKml]_vars

(***************************************************************************)
(* Specification SpecImport: the owner of p1 imports documents into p1,    *)
(* with skip lists, while the database refuses some rows.                  *)
(***************************************************************************)
NextImport ==
    \E d \in ImportDocuments, skip \in SkipLists, refused \in Refusals :
        import_kml("u1", "p1", d, skip, refused)

SpecImport == Init /\ [][NextImport]_vars

(***************************************************************************)
(* Specification SpecRing: the owner of p1 asks for the preview of a       *)
(* document with one named polygon, for every outer ring of at most        *)
(* MaxRingTokens coordinate tokens.                                        *)
(***************************************************************************)
\* a coordinates token that does not parse, such as "x"
Junk == [parts |-> 1, numeric |-> FALSE, lon |-> 0, lat |-> 0]

RingTokens == {Vertex(0, 0), Vertex(1, 0), Vertex(0, 1), Junk}

Rings == UNION {[1..n -> RingTokens] : n \in 0..MaxRingTokens}

RingDocument(ring) ==
    [well_formed |-> TRUE,
     placemarks |-> <<Placemark(Name(<<"A">>), TRUE, ring)>>]

NextRing ==
    /\ last = NoRequest
    /\ \E ring \in Rings : preview_kml("u1", "p1", RingDocument(ring))

SpecRing == Init /\ [][NextRing]_vars

(***************************************************************************)
(* Specification SpecProgress: u3 is the volunteer of a1 on zone z1 and of *)
(* a2 on zone z2, which has no area.  u3 and u1, who is no volunteer, add  *)
(* and delete marks, set the manual percentage and ask for the progress.   *)
(***************************************************************************)
\* the rectangle of the cells x0 .. x1 - 1, as a GeoJSON polygon
Rect(x0, x1) ==
    [type |-> "Polygon",
     coordinates |-> <<<<x0, 0>>, <<x1, 0>>, <<x1, 1>>, <<x0, 1>>, <<x0, 0>>>>]

\* two marks that cover 60% of z1 each and share 30% of it, a mark that is
\* partly outside z1, a mark that covers z1 and more, a point, and a dict
\* that is no geometry
MarkGeometries ==
    {Rect(0, 6), Rect(3, 9), Rect(8, 12), Rect(0, 12),
     [type |-> "Point", coordinates |-> <<<<3, 0>>>>],
     [type |-> "Bogus", coordinates |-> <<>>]}

ManualPercentages == {NoPercentage, 40, 101}

InitAssigned ==
    /\ SeededProjects
    /\ assignments = [a \in AssignmentIds |->
                        IF a = "a1" THEN new_assignment("u1", "z1", "u3")
                        ELSE new_assignment("u2", "z2", "u3")]
    /\ pending = EmptyTable
    /\ completion_areas = EmptyTable
    /\ NoLogins
    /\ now = 1
    /\ last = NoRequest

NextProgress ==
    \E user \in {"u1", "u3"} :
        \/ \E a \in AssignmentIds :
              \/ get_completion_progress(user, a)
              \/ \E g \in MarkGeometries, m \in AreaIds :
                    create_completion_area(user, a, g, m)
              \/ \E percentage \in ManualPercentages :
                    update_my_assignment(user, a, None, percentage)
        \/ \E m \in AreaIds : delete_completion_area(user, m)

SpecProgress == InitAssigned /\ [][NextProgress]_vars

(***************************************************************************)
(* Specification SpecCascade: from the seeded projects with an assignment  *)
(* on each zone and a mark on each assignment, every user deletes          *)
(* projects, zones, assignments and marks, while the owners assign u3      *)
(* again and u3 adds marks.                                                *)
(***************************************************************************)
InitMarked ==
    /\ SeededProjects
    /\ assignments = [a \in AssignmentIds |->
                        IF a = "a1" THEN new_assignment("u1", "z1", "u3")
                        ELSE new_assignment("u2", "z2", "u3")]
    /\ pending = EmptyTable
    /\ completion_areas =
          [m \in AreaIds |->
              [assignment_id |-> IF m = "m1" THEN "a1" ELSE "a2",
               geometry |-> from_shape(Rect(0, 6))]]
    /\ NoLogins
    /\ now = 1
    /\ last = NoRequest

NextCascade ==
    \/ \E u \in Users, p \in ProjectIds : delete_project(u, p)
    \/ \E u \in Users, z \in ZoneIds : delete_zone(u, z)
    \/ \E u \in Users, p \in ProjectIds : delete_all_zones(u, p)
    \/ \E u \in Users, a \in AssignmentIds : delete_assignment(u, a)
    \/ \E u \in Users, m \in AreaIds : delete_completion_area(u, m)
    \/ \E u \in {"u1", "u2"}, p \in ProjectIds, z \in ZoneIds,
          a \in AssignmentIds :
          create_assignment(u, p, z, "u3", a)
    \/ \E a \in AssignmentIds, m \in AreaIds :
          create_completion_area("u3", a, Rect(0, 6), m)

SpecCascade == InitMarked /\ [][NextCascade]_vars

(***************************************************************************)
(* Specification SpecAuth: browsers ask for Google logins and come back    *)
(* with callbacks, which carry any state and any answer of Google.         *)
(***************************************************************************)
GoogleAnswers ==
    {NoToken, NoUserInfo} \cup
    {UserInfo(g, n) : g \in GoogleIds, n \in GoogleNames}

NextAuth ==
    \/ \E state \in OAuthStates : google_login(state)
    \/ \E state \in OAuthStates, answer \in GoogleAnswers :
          google_callback(state, answer)

SpecAuth == Init /\ [][NextAuth]_vars

(***************************************************************************)
(* Specification SpecLifecycle: the owners of p1 and p2 assign u3, who     *)
(* asks for every status and sets the manual percentage, while the clock   *)
(* advances.  No administrative update is made.                            *)
(***************************************************************************)
NextLifecycle ==
    \/ \E o \in OwnedZones, a \in AssignmentIds :
          create_assignment(o[1], o[2], o[3], "u3", a)
    \/ \E a \in AssignmentIds, s \in Statuses :
          update_my_assignment_status("u3", a, s)
    \/ Tick

SpecLifecycle == Init /\ [][NextLifecycle]_vars

(***************************************************************************)
(* Specification SpecZones: the owner of p1 invites and removes            *)
(* collaborators, and every user imports a document into a project,        *)
(* deletes a zone and deletes all zones of a project.                      *)
(***************************************************************************)
ZoneDocuments ==
    {Malformed, [well_formed |-> TRUE, placemarks |-> <<ValidA>>]}

NextZones ==
    \/ \E r \in CollaboratorRole : invite_collaborator("u1", "p1", "u3", r)
    \/ \E v \in {"u2", "u3"} : remove_collaborator("u1", "p1", v)
    \/ \E u \in Users, p \in ProjectIds, d \in ZoneDocuments :
          import_kml(u, p, d, {}, {})
    \/ \E u \in Users, z \in ZoneIds \cup ImportedZoneIds : delete_zone(u, z)
    \/ \E u \in Users, p \in ProjectIds : delete_all_zones(u, p)

SpecZones == Init /\ [][NextZones]_vars

(***************************************************************************)
(* Specification SpecMarks: the owner of p1 assigns u3 to z1 as a1, and    *)
(* every user asks for each mark operation, on a1 and on a2, which does    *)
(* not exist.                                                              *)
(***************************************************************************)
NextMarks ==
    \/ create_assignment("u1", "p1", "z1", "u3", "a1")
    \/ \E u \in Users, a \in AssignmentIds :
          \E g \in {Rect(0, 6), [type |-> "Bogus", coordinates |-> <<>>]},
             m \in AreaIds :
             create_completion_area(u, a, g, m)
    \/ \E u \in Users, a \in AssignmentIds : get_completion_areas(u, a)
    \/ \E u \in Users, m \in AreaIds : delete_completion_area(u, m)
    \/ \E u \in Users, a \in AssignmentIds : get_completion_progress(u, a)

SpecMarks == Init /\ [][NextMarks]_vars

(***************************************************************************)
(* Specification SpecFields: u3 is the volunteer of a1 and a2 and moves    *)
(* them through their statuses; u3 and the owner of p1 send field updates,  *)
(* with and without notes, with percentages inside and outside 0..100.     *)
(***************************************************************************)
FieldPercentages == {NoPercentage, 0, 100, 101, -5}

NextFields ==
    \/ \E u \in {"u1", "u3"}, a \in AssignmentIds, n \in {None} \cup NoteTexts,
          percentage \in FieldPercentages :
          update_my_assignment(u, a, n, percentage)
    \/ \E a \in AssignmentIds, s \in {"in_progress", "completed"} :
          update_my_assignment_status("u3", a, s)

SpecFields == InitAssigned /\ [][NextFields]_vars

(***************************************************************************)
(* Specification SpecAvailable: the owner of p1 assigns the members of p1  *)
(* to z1, who work and complete, and the owner and a viewer ask for the    *)
(* available volunteers of each project, with and without a zone.          *)
(***************************************************************************)
NextAvailable ==
    \/ \E v \in Users, a \in AssignmentIds :
          create_assignment("u1", "p1", "z1", v, a)
    \/ \E v \in Users, a \in AssignmentIds,
          s \in {"in_progress", "completed"} :
          update_my_assignment_status(v, a, s)
    \/ \E u \in {"u1", "u3"}, p \in ProjectIds, z \in ZoneIds \cup {None} :
          get_available_volunteers(u, p, z)

SpecAvailable == Init /\ [][NextAvailable]_vars

(***************************************************************************)
(* Vocabulary of the properties                                            *)
(***************************************************************************)
\* the last request addressed an assignment that existed
OnExisting == last.id \in DOMAIN last.old

\* the addressed assignment before the request, and now
Before == last.old[last.id]
After == assignments[last.id]

\* the transition table of the lifecycle, as pairs (from, to)
TransitionTable ==
    {<<"assigned", "in_progress">>, <<"in_progress", "assigned">>,
     <<"in_progress", "completed">>, <<"completed", "in_progress">>}

\* the last request was a lifecycle transition asked by the assignment's
\* volunteer
VolunteerTransition ==
    /\ last.op = "update_my_assignment_status"
    /\ OnExisting
    /\ Before.volunteer_id = last.user

\* user is the owner of the project, or holds a collaborator row with one
\* of the given roles
HasRole(user, project_id, roles) ==
    /\ project_id \in DOMAIN projects
    /\ \/ projects[project_id].owner_id = user
       \/ \E c \in collaborators :
             c.project_id = project_id /\ c.user_id = user /\ c.role \in roles

(***************************************************************************)
(* C1  Duplicate-assignment invariant                                      *)
(***************************************************************************)
\* C1: for every (zone, volunteer) pair at most one assignment with a status
\* other than completed exists, whatever creations, volunteer transitions,
\* administrative updates and deletions took place.
C1_AtMostOneActive ==
    \A a, b \in DOMAIN assignments :
        ( /\ assignments[a].zone_id = assignments[b].zone_id
          /\ assignments[a].volunteer_id = assignments[b].volunteer_id
          /\ assignments[a].status # "completed"
          /\ assignments[b].status # "completed" ) => a = b

(***************************************************************************)
(* C2  Transitions outside the table                                       *)
(***************************************************************************)
\* C2: a transition requested by the volunteer for a (current, requested)
\* pair outside the table fails with InvalidTransition and changes nothing.
C2_OutsideTableIsInvalidTransition ==
    (VolunteerTransition /\ <<Before.status, last.req.status>> \notin TransitionTable)
        => /\ last.outcome = "InvalidTransition"
           /\ assignments = last.old

(***************************************************************************)
(* C3  Transitions of the table                                            *)
(***************************************************************************)
\* C3: a transition requested by the volunteer for a pair of the table
\* succeeds and sets the status to the requested one; in_progress -> assigned
\* clears started_at.
C3_TableTransitionsSucceed ==
    (VolunteerTransition /\ <<Before.status, last.req.status>> \in TransitionTable)
        => /\ last.outcome = "OK"
           /\ After.status = last.req.status
           /\ last.req.status = "assigned" => After.started_at = NoTime

(***************************************************************************)
(* C4  Reactivation                                                        *)
(***************************************************************************)
\* C4: a volunteer transition to in_progress of a completed assignment whose
\* started_at is set succeeds and yields status in_progress, completed_at
\* null and started_at as it was.
C4_Reactivation ==
    ( /\ VolunteerTransition
      /\ Before.status = "completed"
      /\ Before.started_at # NoTime
      /\ last.req.status = "in_progress" )
        => /\ last.outcome = "OK"
           /\ After.status = "in_progress"
           /\ After.completed_at = NoTime
           /\ After.started_at = Before.started_at

\* a completed assignment, started earlier and carrying a completed_at, has
\* been reactivated
C4_Witness ==
    /\ VolunteerTransition
    /\ last.outcome = "OK"
    /\ Before.status = "completed"
    /\ Before.started_at \notin {NoTime, last.at}
    /\ Before.completed_at # NoTime
    /\ last.req.status = "in_progress"

(***************************************************************************)
(* C5  started_at is written once                                          *)
(***************************************************************************)
\* C5: a successful volunteer transition into in_progress sets started_at to
\* the time of the request exactly when started_at was null, and otherwise
\* leaves it as it was.
C5_StartedAtWrittenOnce ==
    ( /\ VolunteerTransition
      /\ last.outcome = "OK"
      /\ last.req.status = "in_progress" )
        => After.started_at =
              IF Before.started_at = NoTime THEN last.at ELSE Before.started_at

\* a first start, at a time later than the creation of the assignment
C5_Witness ==
    /\ VolunteerTransition
    /\ last.outcome = "OK"
    /\ last.req.status = "in_progress"
    /\ Before.status = "assigned"
    /\ Before.started_at = NoTime
    /\ last.at > 1
    /\ After.started_at = last.at

(***************************************************************************)
(* C6  completed_at on completion                                          *)
(***************************************************************************)
\* C6: a successful volunteer transition into completed sets completed_at to
\* the time of the request when it was null, leaves it when it was set, and
\* never leaves it null.
C6_CompletedAtOnCompletion ==
    ( /\ VolunteerTransition
      /\ last.outcome = "OK"
      /\ last.req.status = "completed" )
        => /\ After.completed_at =
                 IF Before.completed_at = NoTime THEN last.at
                 ELSE Before.completed_at
           /\ After.completed_at # NoTime

\* the volunteer completes an assignment whose completed_at an organizer had
\* already written, at another time
C6_Witness ==
    /\ VolunteerTransition
    /\ last.outcome = "OK"
    /\ last.req.status = "completed"
    /\ Before.completed_at \notin {NoTime, last.at}

C8_AdminOverride ==
    ( /\ last.op = "update_assignment"
      /\ OnExisting
      /\ HasRole(last.user, zones[Before.zone_id].project_id, {ORGANIZER}) )
        => /\ last.outcome = "OK"
           /\ After.status =
                 IF last.req.status # None THEN last.req.status ELSE Before.status
           /\ After.started_at =
                 IF last.req.started_at # NoTime THEN last.req.started_at
                 ELSE Before.started_at
           /\ After.completed_at =
                 IF last.req.completed_at # NoTime THEN last.req.completed_at
                 ELSE Before.completed_at
           /\ After.zone_id = Before.zone_id
           /\ After.volunteer_id = Before.volunteer_id

\* an assigned assignment is overridden to completed with no timestamp
\* supplied: a pair outside the table, and completed_at stays null
C8_Witness ==
    /\ last.op = "update_assignment"
    /\ OnExisting
    /\ last.outcome = "OK"
    /\ Before.status = "assigned"
    /\ Before.completed_at = NoTime
    /\ last.req = [status |-> "completed", started_at |-> NoTime,
                   completed_at |-> NoTime]
    /\ After.status = "completed"
    /\ After.completed_at = NoTime

(***************************************************************************)
(* C9  Administrative mutations need the organizer check                   *)
(***************************************************************************)
\* the last request was create_assignment for an existing zone, or
\* update_assignment or delete_assignment of an existing assignment
AdminMutation ==
    \/ last.op = "create_assignment" /\ last.req.zone_id \in DOMAIN zones
    \/ last.op \in {"update_assignment", "delete_assignment"} /\ OnExisting

\* the project of the zone the last administrative mutation is about
TargetProject ==
    IF last.op = "create_assignment" THEN zones[last.req.zone_id].project_id
    ELSE zones[Before.zone_id].project_id

\* C9 as claimed: a user who is neither the owner nor an organizer
\* collaborator of the zone's project gets Forbidden and nothing changes.
C9_NonOrganizerForbidden ==
    (AdminMutation /\ ~HasRole(last.user, TargetProject, {ORGANIZER}))
        => /\ last.outcome = "Forbidden"
           /\ assignments = last.old

\* C9 as amended: a user who is neither the owner of the zone's project nor
\* a collaborator of it with role organizer or owner changes nothing;
\* update_assignment, delete_assignment and a create_assignment addressed
\* to the zone's project fail with Forbidden, and a create_assignment
\* addressed to another project fails with NotFound, Forbidden or "zone does
\* not belong to this project".
C9_NonOrganizerRejected ==
    (AdminMutation /\ ~HasRole(last.user, TargetProject, {ORGANIZER, OWNER}))
        => /\ assignments = last.old
           /\ IF last.op = "create_assignment"
                 /\ last.req.project_id # TargetProject
              THEN last.outcome \in {"NotFound", "Forbidden", "ZoneNotInProject"}
              ELSE last.outcome = "Forbidden"

\* a volunteer who is only a viewer of the project tried to override their
\* own assignment and was refused
C9_Witness ==
    /\ last.op = "update_assignment"
    /\ OnExisting
    /\ Before.volunteer_id = last.user
    /\ HasRole(last.user, TargetProject, {PROJECT_VIEWER})
    /\ ~HasRole(last.user, TargetProject, {ORGANIZER, OWNER})
    /\ last.req.status # None
    /\ last.outcome = "Forbidden"

(***************************************************************************)
(* C10  The owner check                                                    *)
(***************************************************************************)
\* C10: with required role owner, check_project_access grants exactly the
\* user equal to project.owner_id; every other user of an existing project
\* is Forbidden whatever collaborator row they hold, and delete_project by
\* such a user is refused and deletes nothing.
C10_OwnerOnly ==
    /\ \A p \in DOMAIN projects, u \in Users :
          check_project_access(p, u, OWNER) =
             IF projects[p].owner_id = u THEN "OK" ELSE "Forbidden"
    /\ ( /\ last.op = "delete_project"
         /\ last.id \in DOMAIN last.old.projects
         /\ last.old.projects[last.id].owner_id # last.user )
          => /\ last.outcome = "Forbidden"
             /\ projects = last.old.projects
             /\ collaborators = last.old.collaborators

\* a collaborator whose row has role owner tried to delete the project and
\* was refused
C10_Witness ==
    /\ last.op = "delete_project"
    /\ last.outcome = "Forbidden"
    /\ last.id \in DOMAIN projects
    /\ \E c \in collaborators :
          c.project_id = last.id /\ c.user_id = last.user /\ c.role = OWNER

(***************************************************************************)
(* C11  Role ordering                                                      *)
(***************************************************************************)
\* user holds a collaborator row of the project with the given role
Collaborates(user, project_id, role) ==
    \E c \in collaborators :
        c.project_id = project_id /\ c.user_id = user /\ c.role = role

\* the last request was an invitation or a removal of a collaborator of a
\* project that existed, sent by a user who held a collaborator row with
\* the given role
CollaboratorRequestBy(role) ==
    /\ last.op \in {"invite_collaborator", "remove_collaborator"}
    /\ last.id \in DOMAIN last.old.projects
    /\ \E c \in last.old.collaborators :
          c.project_id = last.id /\ c.user_id = last.user /\ c.role = role

\* C11: the organizer check grants the owner and organizer collaborators and
\* is Forbidden for viewer collaborators; the check with no minimum role
\* grants owner, organizer and viewer; an organizer collaborator fails the
\* owner check.  An invitation or removal (organizer check) sent by a viewer
\* is Forbidden and changes nothing.
C11_RoleOrdering ==
    /\ \A p \in DOMAIN projects, u \in Users :
          LET owner == projects[p].owner_id = u
              organizer == Collaborates(u, p, ORGANIZER)
              viewer == Collaborates(u, p, PROJECT_VIEWER)
          IN  /\ (owner \/ organizer)
                    => check_project_access(p, u, ORGANIZER) = "OK"
              /\ viewer => check_project_access(p, u, ORGANIZER) = "Forbidden"
              /\ (owner \/ organizer \/ viewer)
                    => check_project_access(p, u, None) = "OK"
              /\ organizer => check_project_access(p, u, OWNER) = "Forbidden"
    /\ CollaboratorRequestBy(PROJECT_VIEWER)
          => /\ last.outcome = "Forbidden"
             /\ collaborators = last.old.collaborators

\* a viewer of a project that also has an organizer tried to invite or
\* remove a collaborator and was refused
C11_Witness ==
    /\ CollaboratorRequestBy(PROJECT_VIEWER)
    /\ last.outcome = "Forbidden"
    /\ last.id \in DOMAIN projects
    /\ \E u \in Users : Collaborates(u, last.id, ORGANIZER)
    /\ check_project_access(last.id, last.user, None) = "OK"

(***************************************************************************)
(* C12  Missing projects and strangers                                     *)
(***************************************************************************)
\* the values of required_role: the default None, organizer, owner
RequiredRoles == {None, ORGANIZER, OWNER}

\* the last request was sent by a user who was neither the owner nor a
\* collaborator of the addressed project, which existed
RequestByStranger ==
    /\ last.op \in {"delete_project", "invite_collaborator", "remove_collaborator"}
    /\ last.id \in DOMAIN last.old.projects
    /\ last.old.projects[last.id].owner_id # last.user
    /\ ~\E c \in last.old.collaborators :
           c.project_id = last.id /\ c.user_id = last.user

\* the last request addressed a project that did not exist
RequestOnMissingProject ==
    /\ last.op \in {"delete_project", "invite_collaborator", "remove_collaborator"}
    /\ last.id \notin DOMAIN last.old.projects

\* C12: check_project_access is NotFound for a project that does not exist,
\* for every user and every minimum role, and Forbidden for every minimum
\* role when the project exists and the user is neither its owner nor holds
\* a collaborator row; a request that ends in one of these two ways leaves
\* every table as it was.
C12_NotFoundAndForbidden ==
    /\ \A p \in ProjectIds, u \in Users, r \in RequiredRoles :
          /\ p \notin DOMAIN projects
                => check_project_access(p, u, r) = "NotFound"
          /\ ( /\ p \in DOMAIN projects
               /\ projects[p].owner_id # u
               /\ CollaboratorRows(p, u) = {} )
                => check_project_access(p, u, r) = "Forbidden"
    /\ RequestOnMissingProject
          => last.outcome = "NotFound" /\ ProjectTables = last.old
    /\ RequestByStranger
          => last.outcome = "Forbidden" /\ ProjectTables = last.old

\* a user with no role on an existing project that has collaborators asked
\* to remove one of them and was refused, while the other project is missing
C12_Witness ==
    /\ RequestByStranger
    /\ last.op = "remove_collaborator"
    /\ last.outcome = "Forbidden"
    /\ CollaboratorRows(last.id, last.req.user_id) # {}
    /\ \E p \in ProjectIds : p \notin DOMAIN projects

(***************************************************************************)
(* C13  Assignment-level access                                            *)
(***************************************************************************)
\* the project that owns the zone of an assignment
OwningProject(assignment_id) == zones[assignments[assignment_id].zone_id].project_id

\* C13: without require_volunteer, check_assignment_access grants the
\* assigned volunteer access to their own assignment whatever their role on
\* the zone's project, and grants every other user access exactly when that
\* user passes the can-view check on the zone's project, that is when the
\* user is its owner or holds a collaborator row of it.
C13_AssignmentAccess ==
    \A a \in DOMAIN assignments, u \in Users :
        IF assignments[a].volunteer_id = u
        THEN check_assignment_access(a, u, FALSE) = "OK"
        ELSE /\ check_assignment_access(a, u, FALSE) = "OK"
                   <=> check_project_access(OwningProject(a), u, None) = "OK"
             /\ check_assignment_access(a, u, FALSE) = "OK"
                   <=> HasRole(u, OwningProject(a), CollaboratorRole)
             /\ check_assignment_access(a, u, FALSE) \in {"OK", "Forbidden"}

\* a collaborator was removed from the project after being assigned to one
\* of its zones and still has access to that assignment, while another
\* volunteer who never had a role on the project has access to theirs
C13_Witness ==
    /\ last.op = "remove_collaborator"
    /\ last.outcome = "OK"
    /\ \E a \in DOMAIN assignments :
          /\ assignments[a].volunteer_id = last.req.user_id
          /\ OwningProject(a) = last.id
          /\ check_project_access(last.id, last.req.user_id, None) = "Forbidden"
          /\ check_assignment_access(a, last.req.user_id, FALSE) = "OK"
    /\ \E a \in DOMAIN assignments :
          /\ assignments[a].volunteer_id = "u1"
          /\ OwningProject(a) = "p2"
          /\ check_assignment_access(a, "u1", FALSE) = "OK"
          /\ check_assignment_access(a, "u3", FALSE) = "OK"

(***************************************************************************)
(* C14  The duplicate guard of create_assignment                           *)
(***************************************************************************)
\* the last request was a create_assignment that passed the checks made
\* before the duplicate guard: the user may assign in the project, the zone
\* exists and belongs to the project
CreateReachedGuard ==
    /\ last.op = "create_assignment"
    /\ HasRole(last.user, last.req.project_id, {ORGANIZER, OWNER})
    /\ last.req.zone_id \in DOMAIN zones
    /\ zones[last.req.zone_id].project_id = last.req.project_id

\* the assignments of the requested (zone, volunteer) pair before the request
PriorOfPair ==
    {a \in DOMAIN last.old :
        /\ last.old[a].zone_id = last.req.zone_id
        /\ last.old[a].volunteer_id = last.req.volunteer_id}

\* C14: create_assignment for a pair that has an assignment with status
\* assigned or in_progress fails with DuplicateAssignment and creates
\* nothing; when every prior assignment of the pair is completed it succeeds
\* and adds one assignment with status assigned and null started_at and
\* completed_at, leaving the prior ones as they were.
C14_DuplicateGuard ==
    CreateReachedGuard =>
        IF \E a \in PriorOfPair : last.old[a].status \in {"assigned", "in_progress"}
        THEN /\ last.outcome = "DuplicateAssignment"
             /\ assignments = last.old
        ELSE /\ last.outcome = "OK"
             /\ last.id \notin DOMAIN last.old
             /\ DOMAIN assignments = DOMAIN last.old \cup {last.id}
             /\ \A a \in DOMAIN last.old : assignments[a] = last.old[a]
             /\ After.zone_id = last.req.zone_id
             /\ After.volunteer_id = last.req.volunteer_id
             /\ After.status = "assigned"
             /\ After.started_at = NoTime
             /\ After.completed_at = NoTime

\* the volunteer, whose earlier assignment of the zone is completed, was
\* assigned to the zone again
C14_Witness ==
    /\ CreateReachedGuard
    /\ last.outcome = "OK"
    /\ PriorOfPair # {}
    /\ \A a \in PriorOfPair : assignments[a].status = "completed"
    /\ After.status = "assigned"

(***************************************************************************)
(* C15  Concurrent creation                                                *)
(***************************************************************************)
\* the assignments of the pair of the last request that are not completed
ActiveOfPair ==
    {a \in DOMAIN assignments :
        /\ assignments[a].zone_id = last.req.zone_id
        /\ assignments[a].volunteer_id = last.req.volunteer_id
        /\ assignments[a].status # "completed"}

\* C15: when create_assignment requests for one (zone, volunteer) pair
\* interleave, so that both run the existence check before either inserts,
\* at most one of them commits: after a create_assignment has committed the
\* pair has one assignment that is not completed.
C15_AtMostOneCommits ==
    (last.op = "create_assignment" /\ last.outcome = "OK")
        => Cardinality(ActiveOfPair) <= 1

(***************************************************************************)
(* Vocabulary of the import properties                                     *)
(***************************************************************************)
\* the last request was an import by a user who may view the project
ImportAllowed ==
    /\ last.op = "import_kml"
    /\ HasRole(last.user, last.id, CollaboratorRole)

\* what the parser made of the document of the last request
Parsed == parse_kml(last.req.kml_content)

\* the candidate's name is on the skip list of the last request, whatever
\* the case of the letters
OnSkipList(zone_data) ==
    \E name \in last.req.zones_to_skip : lower(name) = lower(zone_data.name)

NotOnSkipList(zone_data) == ~OnSkipList(zone_data)

\* the parsed candidates that the last request asked to import
Wanted == SelectSeq(Parsed.zones, NotOnSkipList)

\* the zones that exist now and did not exist before the last request, in
\* the order of their keys, and their names
IsNewZone(z) == z \in DOMAIN zones /\ z \notin DOMAIN last.old
NewZones == SelectSeq(ZoneIdOrder, IsNewZone)
NewZoneNames == [i \in 1..Len(NewZones) |-> zones[NewZones[i]].name]

\* the zones that existed before the last request are as they were
OldZonesKept ==
    \A z \in DOMAIN last.old : z \in DOMAIN zones /\ zones[z] = last.old[z]

(***************************************************************************)
(* C16  The import is all-or-nothing                                       *)
(***************************************************************************)
\* C16: after an import request either every parsed candidate that is not
\* on the skip list is persisted as a zone of the project, or no zone of
\* the request is persisted; a candidate whose creation fails never leaves
\* a part of the batch committed.
C16_AllOrNothing ==
    last.op = "import_kml" =>
        /\ OldZonesKept
        /\ \/ NewZones = <<>>
           \/ /\ NewZoneNames = [i \in 1..Len(Wanted) |-> Wanted[i].name]
              /\ \A i \in DOMAIN NewZones : zones[NewZones[i]].project_id = last.id

\* the database accepted the first candidate of a batch and refused the
\* second: nothing of the batch is persisted
C16_Witness ==
    /\ ImportAllowed
    /\ Len(Wanted) >= 2
    /\ Wanted[1].name \notin last.req.refused
    /\ Wanted[2].name \in last.req.refused
    /\ last.outcome = "ServerError"
    /\ zones = last.old

(***************************************************************************)
(* C17  Skipping every candidate                                           *)
(***************************************************************************)
\* C17: when the parse yields at least one candidate and the skip list
\* removes every candidate, the import succeeds with zones_created = 0 and
\* persists nothing, also when the parse reported errors for other
\* placemarks.
C17_SkipAllIsNoOp ==
    (ImportAllowed /\ Parsed.zones # <<>> /\ Wanted = <<>>)
        => /\ last.outcome = "OK"
           /\ last.result.zones_created = 0
           /\ zones = last.old

(***************************************************************************)
(* C18  No candidate and an error                                          *)
(***************************************************************************)
\* C18: when the parse yields no candidate and at least one error, the
\* import fails as a whole and the zones are those of before the request.
C18_NoCandidateFails ==
    (ImportAllowed /\ Parsed.zones = <<>> /\ Parsed.errors # <<>>)
        => /\ last.outcome = "ParseFailed"
           /\ last.result.zones_created = 0
           /\ zones = last.old

\* a well-formed document whose only placemarks have no polygon was refused
C18_Witness ==
    /\ ImportAllowed
    /\ last.req.kml_content.well_formed
    /\ last.req.kml_content.placemarks # <<>>
    /\ Parsed.zones = <<>>
    /\ last.outcome = "ParseFailed"
    /\ zones = last.old

(***************************************************************************)
(* Vocabulary of the parser properties                                     *)
(***************************************************************************)
\* the last request was a preview that reached the parser, for a
\* well-formed document with placemarks
PreviewParsed ==
    /\ last.op = "preview_kml"
    /\ last.outcome \in {"OK", "ParseFailed"}
    /\ last.req.kml_content.well_formed
    /\ last.req.kml_content.placemarks # <<>>

\* the placemark has a name: a name element with a text that is not blank
Named(placemark) ==
    placemark.name.present /\ \E i \in DOMAIN placemark.name.text :
                                  placemark.name.text[i] # " "

HasPolygon(placemark) == extract_polygon(placemark) # NoGeometry

NamedWithPolygon(placemark) == Named(placemark) /\ HasPolygon(placemark)
NamedWithoutPolygon(placemark) == Named(placemark) /\ ~HasPolygon(placemark)

\* sub occurs in text
Contains(text, sub) ==
    \E i \in 0..(Len(text) - Len(sub)) : SubSeq(text, i + 1, i + Len(sub)) = sub

\* the errors of the last preview that are about a placemark
IsPlacemarkError(error) == error.message = "Failed to parse placemark"
PlacemarkErrors == SelectSeq(last.result.errors, IsPlacemarkError)

(***************************************************************************)
(* C19  Placemarks without a name                                          *)
(***************************************************************************)
\* C19: a placemark with a missing, empty or blank name is dropped
\* silently: the candidates are the named placemarks with a polygon and
\* the errors about placemarks are as many as the named placemarks without
\* a polygon, so that no error is about a placemark without a name.
C19_NamelessDroppedSilently ==
    PreviewParsed =>
        /\ last.result.zone_count =
              Len(SelectSeq(last.req.kml_content.placemarks, NamedWithPolygon))
        /\ Len(PlacemarkErrors) =
              Len(SelectSeq(last.req.kml_content.placemarks, NamedWithoutPolygon))

(***************************************************************************)
(* C20  A failed placemark does not end the batch                          *)
(***************************************************************************)
\* the errors of the last preview that show the name of a named placemark
ShowsName(error) ==
    /\ IsPlacemarkError(error)
    /\ error.zone_name \notin {Unknown, NoneText}
    /\ strip(error.zone_name) # <<>>
NamedErrors == SelectSeq(last.result.errors, ShowsName)

\* C20: every named placemark with a polygon is emitted as a candidate, in
\* document order, whatever the other placemarks are, and every named
\* placemark without an extractable polygon gives no candidate and one
\* error that contains its name, in document order.
C20_BatchContinues ==
    PreviewParsed =>
        LET emitted == SelectSeq(last.req.kml_content.placemarks, NamedWithPolygon)
            dropped == SelectSeq(last.req.kml_content.placemarks, NamedWithoutPolygon)
        IN  /\ last.result.zone_names =
                  [i \in 1..Len(emitted) |-> strip(emitted[i].name.text)]
            /\ Len(NamedErrors) = Len(dropped)
            /\ \A i \in DOMAIN dropped :
                  Contains(NamedErrors[i].zone_name, strip(dropped[i].name.text))

\* three named placemarks, the second one without an extractable polygon:
\* two candidates and one error
C20_Witness ==
    /\ PreviewParsed
    /\ last.outcome = "OK"
    /\ Len(last.req.kml_content.placemarks) = 3
    /\ NamedWithPolygon(last.req.kml_content.placemarks[1])
    /\ NamedWithoutPolygon(last.req.kml_content.placemarks[2])
    /\ NamedWithPolygon(last.req.kml_content.placemarks[3])
    /\ last.result.zone_count = 2
    /\ Len(last.result.errors) = 1

(***************************************************************************)
(* C21  Documents rejected wholesale                                       *)
(***************************************************************************)
\* the last request was a preview that reached the parser, for a document
\* that is not well-formed markup or has no placemark element
PreviewRejectedDocument ==
    /\ last.op = "preview_kml"
    /\ zones_check_project_access(last.id, last.user) = "OK"
    /\ \/ ~last.req.kml_content.well_formed
       \/ last.req.kml_content.placemarks = <<>>

\* C21: parse_kml returns to its caller for every document, and for a
\* document that is not well-formed markup or has no placemark element it
\* returns no candidate and exactly one error, which the preview answers
\* with the 400 response that carries that error.
C21_RejectedWholesale ==
    PreviewRejectedDocument =>
        /\ last.outcome = "ParseFailed"
        /\ last.result.zone_count = 0
        /\ last.result.zone_names = <<>>
        /\ Len(last.result.errors) = 1
        /\ last.result.errors[1].message \in
              {"Invalid KML format", "No placemarks found in KML file"}

\* a well-formed document without a placemark was rejected with one error
C21_Witness ==
    /\ PreviewRejectedDocument
    /\ last.req.kml_content.well_formed
    /\ last.outcome = "ParseFailed"
    /\ last.result.errors = <<Error("No placemarks found in KML file", <<>>)>>

(***************************************************************************)
(* C22  Rings with fewer than three distinct vertices                      *)
(***************************************************************************)
\* the last request was the preview of one named polygon
RingPreview ==
    /\ last.op = "preview_kml"
    /\ last.outcome \in {"OK", "ParseFailed"}
    /\ Len(last.req.kml_content.placemarks) = 1
    /\ Named(last.req.kml_content.placemarks[1])
    /\ last.req.kml_content.placemarks[1].polygon

\* the vertices that _parse_coordinates reads from the outer ring of the
\* last preview, the set of them, and the ring that is emitted
InputRing == parse_coordinates(last.req.kml_content.placemarks[1].coordinates)
DistinctVertices == {InputRing[i] : i \in DOMAIN InputRing}
EmittedRing == extract_polygon(last.req.kml_content.placemarks[1])

\* C22: an outer ring with fewer than 3 distinct vertices yields no
\* geometry, so its placemark gives no candidate, also when the ring has 3
\* or more coordinate tokens (A B A, A A A).
C22_FewDistinctVerticesFail ==
    (RingPreview /\ Cardinality(DistinctVertices) < 3) =>
        /\ EmittedRing = NoGeometry
        /\ last.result.zone_count = 0

(***************************************************************************)
(* C23  Ring closure                                                       *)
(***************************************************************************)
\* the outer ring of the last preview was accepted
RingAccepted == RingPreview /\ last.result.zone_count = 1

\* C23: the ring emitted for an accepted ring starts and ends with the
\* same vertex; it is the input followed by a copy of its first vertex
\* when the input is not closed, and the input itself when it is; closing
\* the emitted ring again changes nothing.
C23_RingClosure ==
    RingAccepted =>
        /\ EmittedRing[1] = EmittedRing[Len(EmittedRing)]
        /\ InputRing[1] # InputRing[Len(InputRing)] =>
               EmittedRing = InputRing \o <<InputRing[1]>>
        /\ InputRing[1] = InputRing[Len(InputRing)] =>
               EmittedRing = InputRing
        /\ closed(EmittedRing) = EmittedRing

\* an open ring of three distinct vertices was emitted with four vertices
C23_Witness ==
    /\ RingAccepted
    /\ Cardinality(DistinctVertices) = 3
    /\ Len(InputRing) = 3
    /\ Len(EmittedRing) = 4
    /\ EmittedRing[4] = InputRing[1]

(***************************************************************************)
(* Vocabulary of the progress properties                                   *)
(***************************************************************************)
\* the last request was a progress request that was answered; it changed
\* no table, so the tables are those it read
ProgressReported ==
    /\ last.op = "get_completion_progress"
    /\ last.outcome = "OK"

\* the area of the zone of an assignment, and the cells that at least one
\* mark of the assignment in a table of marks covers
ZoneArea(a) == Cardinality(zones[assignments[a].zone_id].geometry)
CoveredCells(area_table, a) ==
    {c \in Cells : \E m \in DOMAIN area_table :
                      /\ area_table[m].assignment_id = a
                      /\ c \in area_table[m].geometry}

\* the covered area that a progress request reports for the assignment
\* with a table of marks
CoveredArea(area_table, a) ==
    completion_progress(assignments, zones, area_table, a).completed_area_sqm

(***************************************************************************)
(* C24  The percentage is clamped                                          *)
(***************************************************************************)
\* C24: for a zone with an area that is not zero the reported percentage
\* lies between 0 and 100, and it is exactly 100 whenever the area of the
\* union of the marks is at least the area of the zone, marks outside the
\* zone included.
C24_Clamp ==
    (ProgressReported /\ ZoneArea(last.id) # 0) =>
        /\ last.result.progress_percentage \in 0..10000
        /\ Cardinality(CoveredCells(completion_areas, last.id))
              >= ZoneArea(last.id)
           => last.result.progress_percentage = 10000

\* the marks cover as much as the area of the zone, partly outside it, and
\* leave a part of the zone uncovered: 100 is reported
C24_Witness ==
    /\ ProgressReported
    /\ ZoneArea(last.id) # 0
    /\ Cardinality(CoveredCells(completion_areas, last.id)) >= ZoneArea(last.id)
    /\ \E c \in zones[assignments[last.id].zone_id].geometry :
          c \notin CoveredCells(completion_areas, last.id)
    /\ last.result.progress_percentage = 10000

(***************************************************************************)
(* C25  Marks only add, deletions only remove                              *)
(***************************************************************************)
\* C25: for every assignment, the covered area that progress reports after
\* a create_completion_area is not smaller than the one it reported before
\* it, and after a delete_completion_area it is not larger.
C25_Monotone ==
    /\ last.op = "create_completion_area" =>
          \A a \in DOMAIN assignments :
             CoveredArea(completion_areas, a) >= CoveredArea(last.old, a)
    /\ last.op = "delete_completion_area" =>
          \A a \in DOMAIN assignments :
             CoveredArea(completion_areas, a) <= CoveredArea(last.old, a)

\* a mark was added to an assignment that had one, and more is covered
C25_Witness ==
    /\ last.op = "create_completion_area"
    /\ last.outcome = "OK"
    /\ CoveredArea(last.old, last.id) > 0
    /\ CoveredArea(completion_areas, last.id) > CoveredArea(last.old, last.id)

(***************************************************************************)
(* C26  Overlap is counted once                                            *)
(***************************************************************************)
\* the assignment has two marks that cover 60% of its zone each and share
\* 30% of it
TwoOverlappingMarks(a) ==
    \E m1, m2 \in DOMAIN completion_areas :
       LET g1 == completion_areas[m1].geometry
           g2 == completion_areas[m2].geometry
       IN  /\ areas(completion_areas, a) = {m1, m2}
           /\ m1 # m2
           /\ 10 * Cardinality(g1) = 6 * ZoneArea(a)
           /\ 10 * Cardinality(g2) = 6 * ZoneArea(a)
           /\ 10 * Cardinality(g1 \cap g2) = 3 * ZoneArea(a)

\* the last request added a mark that the assignment had already
IdenticalMarkAdded ==
    /\ last.op = "create_completion_area"
    /\ last.outcome = "OK"
    /\ \E m \in DOMAIN last.old :
          last.old[m] = [assignment_id |-> last.id,
                         geometry |-> from_shape(last.req.geometry)]

\* C26: for a zone with an area, the reported covered area is the number
\* of cells that at least one mark covers; two marks of 60% of the zone
\* each that share 30% of it give 90%; a mark identical to an existing one
\* leaves the covered area as it was.
C26_OverlapCountedOnce ==
    /\ (ProgressReported /\ ZoneArea(last.id) # 0) =>
          /\ last.result.completed_area_sqm =
                Cardinality(CoveredCells(completion_areas, last.id))
          /\ TwoOverlappingMarks(last.id) =>
                last.result.progress_percentage = 9000
    /\ IdenticalMarkAdded =>
          CoveredArea(completion_areas, last.id) = CoveredArea(last.old, last.id)

\* the progress of two marks of 60% that share 30% was reported as 90%
C26_Witness ==
    /\ ProgressReported
    /\ ZoneArea(last.id) = 10
    /\ TwoOverlappingMarks(last.id)
    /\ last.result.completed_area_sqm = 9
    /\ last.result.progress_percentage = 9000

(***************************************************************************)
(* C27  Zones without area, assignments without marks                      *)
(***************************************************************************)
\* C27: for a zone without area the percentage and the covered area are 0
\* whatever marks exist, and no division is made; for an assignment
\* without marks the covered area and the percentage are 0 and the area of
\* the zone is reported.
C27_DegenerateInputs ==
    ProgressReported =>
        /\ ZoneArea(last.id) = 0 =>
              /\ last.result.progress_percentage = 0
              /\ last.result.completed_area_sqm = 0
              /\ last.result.total_area_sqm = 0
        /\ areas(completion_areas, last.id) = {} =>
              /\ last.result.progress_percentage = 0
              /\ last.result.completed_area_sqm = 0
              /\ last.result.total_area_sqm = ZoneArea(last.id)

\* the progress of an assignment with a mark of 6 cells on the zone
\* without area was reported
C27_Witness ==
    /\ ProgressReported
    /\ ZoneArea(last.id) = 0
    /\ Cardinality(CoveredCells(completion_areas, last.id)) = 6
    /\ last.result.progress_percentage = 0
    /\ last.result.completed_area_sqm = 0

(***************************************************************************)
(* C28  The manual percentage has no part in the progress                  *)
(***************************************************************************)
\* the assignments, with the manual percentage of one of them replaced
WithManual(a, percentage) ==
    [assignments EXCEPT ![a].manual_completion_percentage = percentage]

\* C28: the response of get_completion_progress for an assignment is the
\* same in the state where its manual_completion_percentage is unset or
\* any value from 0 to 100 and all else is as it is.
C28_IndependentOfManual ==
    /\ \A a \in DOMAIN assignments :
          \A percentage \in {NoPercentage} \cup 0..100 :
             completion_progress(WithManual(a, percentage), zones,
                                 completion_areas, a)
                = completion_progress(assignments, zones, completion_areas, a)
    /\ ProgressReported =>
          last.result = completion_progress(WithManual(last.id, NoPercentage),
                                            zones, completion_areas, last.id)

\* the volunteer has set 40, and the progress reported for the marks is 60
C28_Witness ==
    /\ ProgressReported
    /\ assignments[last.id].manual_completion_percentage = 40
    /\ last.result.progress_percentage = 6000
    /\ last.result.completion_count = 1

(***************************************************************************)
(* C29  The collaborator rows of a project                                 *)
(***************************************************************************)
\* the last request was an invite that was refused because the invited
\* user is a collaborator already, or the owner
InviteRejected ==
    /\ last.op = "invite_collaborator"
    /\ last.outcome \in {"AlreadyCollaborator", "OwnerAsCollaborator"}

\* C29: in every state reached by create_project, invite_collaborator and
\* remove_collaborator (and delete_project), no collaborator row of a
\* project is for the owner of that project, a project and a user have at
\* most one collaborator row, and a rejected invite leaves the collaborator
\* rows as they were.
C29_CollaboratorInvariant ==
    /\ \A c \in collaborators :
          c.project_id \in DOMAIN projects =>
             c.user_id # projects[c.project_id].owner_id
    /\ \A c1, c2 \in collaborators :
          (c1.project_id = c2.project_id /\ c1.user_id = c2.user_id) => c1 = c2
    /\ InviteRejected => collaborators = last.old.collaborators

\* an organizer of the project invited its owner, and was refused
C29_Witness ==
    /\ InviteRejected
    /\ last.outcome = "OwnerAsCollaborator"
    /\ last.user # projects[last.id].owner_id
    /\ Collaborates(last.user, last.id, ORGANIZER)
    /\ collaborators = last.old.collaborators

(***************************************************************************)
(* C30  Deletions cascade                                                  *)
(***************************************************************************)
\* the zones of a project and the assignments of a set of zones, in the
\* tables as they were before the last request
OldZonesOf(project_id) ==
    {z \in DOMAIN last.old.zones : last.old.zones[z].project_id = project_id}
OldAssignmentsOf(zone_ids) ==
    {a \in DOMAIN last.old.assignments :
        last.old.assignments[a].zone_id \in zone_ids}

Deleted(op) == last.op = op /\ last.outcome = "OK"

\* C30: every zone belongs to an existing project, every assignment to an
\* existing zone and every completion mark to an existing assignment;
\* a deleted project leaves none of its zones, and a deleted zone none of
\* its assignments, whether it was deleted alone or with all zones of its
\* project.
C30_ReferencesIntact ==
    /\ \A z \in DOMAIN zones : zones[z].project_id \in DOMAIN projects
    /\ \A a \in DOMAIN assignments : assignments[a].zone_id \in DOMAIN zones
    /\ \A m \in DOMAIN completion_areas :
          completion_areas[m].assignment_id \in DOMAIN assignments
    /\ Deleted("delete_project") =>
          /\ OldZonesOf(last.id) \cap DOMAIN zones = {}
          /\ \A z \in DOMAIN zones : zones[z].project_id # last.id
    /\ Deleted("delete_zone") =>
          /\ last.id \notin DOMAIN zones
          /\ OldAssignmentsOf({last.id}) \cap DOMAIN assignments = {}
    /\ Deleted("delete_all_zones") =>
          /\ OldZonesOf(last.id) \cap DOMAIN zones = {}
          /\ OldAssignmentsOf(OldZonesOf(last.id)) \cap DOMAIN assignments = {}

\* all zones of a project were deleted at once, one of which had an
\* assignment with a mark
C30_Witness ==
    /\ Deleted("delete_all_zones")
    /\ \E a \in OldAssignmentsOf(OldZonesOf(last.id)) :
          \E m \in DOMAIN last.old.completion_areas :
             /\ last.old.completion_areas[m].assignment_id = a
             /\ a \notin DOMAIN assignments
             /\ m \notin DOMAIN completion_areas

(***************************************************************************)
(* C31  The state of a login is stored                                     *)
(***************************************************************************)
\* the callbacks answered so far that carried the state
CallbacksWith(state) ==
    {i \in DOMAIN oauth_history :
        /\ oauth_history[i].op = "google_callback"
        /\ oauth_history[i].state = state}

\* C31: the state that google_login returns is in the state store when
\* google_login returns, and the first callback that carries an issued
\* state passes the state check, whatever logins came in between.
C31_IssuedStatePasses ==
    /\ last.op = "google_login" => last.result.state \in oauth_states
    /\ (/\ last.op = "google_callback"
        /\ last.req.state \in Issued
        /\ Cardinality(CallbacksWith(last.req.state)) = 1)
       => last.outcome # "InvalidState"

(***************************************************************************)
(* C32  A state is accepted at most once                                   *)
(***************************************************************************)
\* the last request was a callback with a state that was not in the store
CallbackWithUnknownState ==
    /\ last.op = "google_callback"
    /\ last.req.state \notin last.old.oauth_states

\* the callbacks that passed the state check with the state
Accepted(state) ==
    {i \in CallbacksWith(state) : oauth_history[i].outcome # "InvalidState"}

\* C32: a callback with a state that is not in the store is rejected and
\* creates or updates no user; a callback that passes the state check
\* leaves its state out of the store; no state passes the check twice.
C32_SingleUse ==
    /\ CallbackWithUnknownState =>
          /\ last.outcome = "InvalidState"
          /\ users = last.old.users
          /\ oauth_states = last.old.oauth_states
    /\ (last.op = "google_callback" /\ last.outcome # "InvalidState") =>
          last.req.state \notin oauth_states
    /\ \A state \in OAuthStates : Cardinality(Accepted(state)) <= 1

\* a callback that carried an issued state and the user info of an
\* account was rejected, and no user was created
C32_Witness ==
    /\ CallbackWithUnknownState
    /\ last.req.state \in Issued
    /\ last.req.answer.user_info
    /\ last.outcome = "InvalidState"
    /\ users = EmptyTable

(***************************************************************************)
(* C33  Status and timestamps of an assignment without administrative      *)
(* updates                                                                 *)
(***************************************************************************)
\* C33: an assignment that was created by create_assignment and changed
\* by volunteer transitions only has no timestamp while it is assigned,
\* started_at and no completed_at while it is in progress, and both
\* timestamps once it is completed.
C33_TimestampsFollowStatus ==
    \A a \in DOMAIN assignments :
       LET started == assignments[a].started_at # NoTime
           completed == assignments[a].completed_at # NoTime
       IN  /\ assignments[a].status = "assigned" => ~started /\ ~completed
           /\ assignments[a].status = "in_progress" => started /\ ~completed
           /\ assignments[a].status = "completed" => started /\ completed

\* the volunteer has taken a completed assignment up again: it is in
\* progress, with its first started_at and no completed_at
C33_Witness ==
    /\ last.op = "update_my_assignment_status"
    /\ last.outcome = "OK"
    /\ last.old[last.id].status = "completed"
    /\ assignments[last.id].status = "in_progress"
    /\ assignments[last.id].started_at = last.old[last.id].started_at
    /\ assignments[last.id].started_at < last.at
    /\ assignments[last.id].completed_at = NoTime

(***************************************************************************)
(* C34  Zone mutations ask for the can-view rule                           *)
(***************************************************************************)
\* the user is the owner of the project or has a collaborator row of it
CanView(user, project_id) ==
    /\ project_id \in DOMAIN projects
    /\ \/ projects[project_id].owner_id = user
       \/ \E c \in collaborators :
             c.project_id = project_id /\ c.user_id = user

\* the last request was an import, or the deletion of an existing zone or
\* of all zones of a project; the zones before it and the project it is
\* checked against.  These requests change no project and no collaborator
ZoneMutation ==
    \/ last.op \in {"import_kml", "delete_all_zones"}
    \/ last.op = "delete_zone" /\ last.id \in DOMAIN last.old.zones
ZonesBefore == IF last.op = "import_kml" THEN last.old ELSE last.old.zones
MutatedProject ==
    IF last.op = "delete_zone" THEN ZonesBefore[last.id].project_id
    ELSE last.id

\* C34: _check_project_access of the zones router answers as
\* check_project_access without a required role; an import, delete_zone
\* or delete_all_zones passes the access check (and a deletion succeeds)
\* for the owner and for a collaborator of any role, and for anybody else
\* it is refused with NotFound or Forbidden and changes no zone.
C34_CanViewGatesZones ==
    /\ \A p \in ProjectIds, u \in Users :
          zones_check_project_access(p, u) = check_project_access(p, u, None)
    /\ ZoneMutation =>
          IF CanView(last.user, MutatedProject)
          THEN /\ last.outcome \notin {"NotFound", "Forbidden"}
               /\ last.op # "import_kml" => last.outcome = "OK"
          ELSE /\ last.outcome \in {"NotFound", "Forbidden"}
               /\ zones = ZonesBefore

\* a viewer of the project has deleted all its zones
C34_Witness ==
    /\ last.op = "delete_all_zones"
    /\ last.outcome = "OK"
    /\ Collaborates(last.user, last.id, PROJECT_VIEWER)
    /\ \E z \in DOMAIN ZonesBefore : ZonesBefore[z].project_id = last.id
    /\ \A z \in DOMAIN zones : zones[z].project_id # last.id

(***************************************************************************)
(* C35  Mark operations are for the volunteer                              *)
(***************************************************************************)
\* the last request was a mark operation addressed to an assignment, or
\* the deletion of a mark; these requests change no assignment
OnAssignmentMarks ==
    last.op \in {"create_completion_area", "get_completion_areas",
                 "get_completion_progress"}
OnMark == last.op = "delete_completion_area"

\* the assignment that owns the marks of the last request, if it exists
MarkedAssignment ==
    IF OnMark THEN last.old[last.id].assignment_id ELSE last.id
MarkTargetExists ==
    IF OnMark THEN last.id \in DOMAIN last.old
    ELSE last.id \in DOMAIN assignments

\* C35: a mark operation on a missing assignment or mark is refused with
\* NotFound, and on an existing one with Forbidden for every user who is
\* not the volunteer of the owning assignment, the owner and the
\* organizers of the project included; a create or delete that is refused
\* leaves the marks as they were.
C35_VolunteerOnlyMarks ==
    (OnAssignmentMarks \/ OnMark) =>
        /\ ~MarkTargetExists => last.outcome = "NotFound"
        /\ (/\ MarkTargetExists
            /\ assignments[MarkedAssignment].volunteer_id # last.user)
           => last.outcome = "Forbidden"
        /\ last.outcome # "OK" => completion_areas = last.old

\* the owner of the project asked to delete a mark of the volunteer, and
\* was refused
C35_Witness ==
    /\ OnMark
    /\ MarkTargetExists
    /\ last.user = projects[zones[assignments[MarkedAssignment].zone_id]
                               .project_id].owner_id
    /\ last.user # assignments[MarkedAssignment].volunteer_id
    /\ last.outcome = "Forbidden"
    /\ last.id \in DOMAIN completion_areas

(***************************************************************************)
(* C36  The frame of the volunteer field update                            *)
(***************************************************************************)
FieldUpdate == last.op = "update_my_assignment"

\* an assignment row with the notes and the manual percentage of another
WithFieldsOf(row, other) ==
    [row EXCEPT !.notes = other.notes,
                !.manual_completion_percentage =
                    other.manual_completion_percentage]

\* C36: update_my_assignment is accepted from the volunteer of the
\* assignment only and changes nothing but the notes and the manual
\* percentage of that assignment; a refused update changes nothing; in
\* every state a manual percentage is unset or an integer from 0 to 100.
C36_FieldUpdateFrame ==
    /\ \A a \in DOMAIN assignments :
          assignments[a].manual_completion_percentage
             \in {NoPercentage} \cup 0..100
    /\ FieldUpdate =>
          /\ DOMAIN assignments = DOMAIN last.old
          /\ \A a \in DOMAIN assignments :
                IF a = last.id /\ last.outcome = "OK"
                THEN /\ assignments[a].volunteer_id = last.user
                     /\ WithFieldsOf(assignments[a], last.old[a]) = last.old[a]
                ELSE assignments[a] = last.old[a]

\* the volunteer wrote notes and a percentage on an assignment in
\* progress, which is in progress still
C36_Witness ==
    /\ FieldUpdate
    /\ last.outcome = "OK"
    /\ last.old[last.id].status = "in_progress"
    /\ last.old[last.id].notes = None
    /\ assignments[last.id].notes # None
    /\ assignments[last.id].manual_completion_percentage = 100
    /\ last.old[last.id].manual_completion_percentage # 100
    /\ assignments[last.id].status = "in_progress"

(***************************************************************************)
(* C37  The available volunteers and the duplicate guard                   *)
(***************************************************************************)
\* the last request listed the available volunteers for a zone of the
\* project; it changed no table
ListedForZone ==
    /\ last.op = "get_available_volunteers"
    /\ last.outcome = "OK"
    /\ last.req.zone_id \in DOMAIN zones
    /\ zones[last.req.zone_id].project_id = last.id

\* the user has an assignment on the zone that is not completed
HoldsZone(user, zone_id) ==
    \E a \in DOMAIN assignments :
       /\ assignments[a].zone_id = zone_id
       /\ assignments[a].volunteer_id = user
       /\ assignments[a].status \in {"assigned", "in_progress"}

\* C37: every user listed for a zone of the project has no assignment on
\* that zone that is not completed, and a create_assignment for the zone
\* and that user by the caller is not refused as a duplicate; the owner
\* and every collaborator that is not listed has such an assignment.
C37_ListAgreesWithGuard ==
    ListedForZone =>
        /\ \A u \in DOMAIN last.result :
              /\ ~HoldsZone(u, last.req.zone_id)
              /\ create_assignment_outcome(last.user, last.id,
                                           last.req.zone_id, u)
                    # "DuplicateAssignment"
        /\ \A u \in Users :
              (CanView(u, last.id) /\ u \notin DOMAIN last.result) =>
                 /\ HoldsZone(u, last.req.zone_id)
                 /\ create_assignment_outcome(last.user, last.id,
                                              last.req.zone_id, u)
                       = "DuplicateAssignment"

\* a member who has completed the zone is listed, and a member who works
\* on it is not
C37_Witness ==
    /\ ListedForZone
    /\ \E u \in DOMAIN last.result :
          \E a \in DOMAIN assignments :
             /\ assignments[a].zone_id = last.req.zone_id
             /\ assignments[a].volunteer_id = u
             /\ assignments[a].status = "completed"
    /\ \E u \in Users : CanView(u, last.id) /\ u \notin DOMAIN last.result

(***************************************************************************)
(* C38  The reported number of marks                                       *)
(***************************************************************************)
\* C38: the completion_count of a progress report equals the number of
\* marks stored for the assignment, also when the area of the zone is zero.
C38_CountsStoredMarks ==
    ProgressReported =>
        last.result.completion_count
            = Cardinality(areas(completion_areas, last.id))

====
